---------------------------- MODULE Spec2Model ----------------------------
(***************************************************************************)
(* Partial parsing planner of dbt-core (core/dbt/parser/partial.py).       *)
(*                                                                         *)
(* A PartialParsing object is built from a saved manifest and the freshly  *)
(* read files; get_parsing_files() then walks the five lists of the file   *)
(* diff and mutates the saved manifest in place.  One action models one    *)
(* handler call of that walk, with every nested call it makes.             *)
(*                                                                         *)
(* unique_ids are tuples of their dotted parts: "model.proj.a" is          *)
(* <<"model","proj","a">>, so split(".")[1], split(".")[2] and             *)
(* startswith(prefix) are computed on the parts.                           *)
(***************************************************************************)
EXTENDS Naturals, Sequences, FiniteSets, TLC

VARIABLES
    saved_manifest,                 \* self.saved_manifest (files = self.saved_files)
    new_files,                      \* self.new_files
    os_environ,                     \* the process environment read by os.getenv
    file_diff,                      \* self.file_diff
    env_vars_changed_source_files,  \* self.env_vars_changed_source_files
    env_vars_changed_schema_files,  \* self.env_vars_changed_schema_files
    macro_child_map,                \* self.macro_child_map
    disabled_by_file_id,            \* self.disabled_by_file_id
    project_parser_files,           \* self.project_parser_files
    deleted_special_override_macro, \* self.deleted_special_override_macro
    processing_file,                \* self.processing_file
    events,                         \* events handed to fire_event, in order
    pc,                             \* position: new, ready, running, done, raised
    todo,                           \* the part of each file_diff list not yet iterated
    exc,                            \* the exception that ended the run, or NoExc
    calls,                          \* history: handler calls made by get_parsing_files
    manifest_given,                 \* history: the saved manifest handed to __init__
    manifest_built,                 \* history: the saved manifest when __init__ returned
    aliased,                        \* file_ids whose saved file is the object of new_files
    observed,                       \* history: what the calls observed in the last handler left
    gathered,                       \* the referencing_nodes list of recursively_gather_macro_references
    frames                          \* the frames of recursively_gather_macro_references

vars == <<saved_manifest, new_files, os_environ, file_diff,
          env_vars_changed_source_files, env_vars_changed_schema_files,
          macro_child_map, disabled_by_file_id, project_parser_files,
          deleted_special_override_macro, processing_file, events, pc, todo,
          exc, calls, manifest_given, manifest_built, aliased, observed,
          gathered, frames>>

---------------------------------------------------------------------------
(* Generic helpers for Python dicts, lists and sets.                       *)

None == "None"
NoExc == "NoExc"
EmptyDict == <<>>

Has(d, k) == k \in DOMAIN d
Put(d, k, v) == [x \in (DOMAIN d) \cup {k} |-> IF x = k THEN v ELSE d[x]]
Pop(d, k) == [x \in (DOMAIN d) \ {k} |-> d[x]]
Get(d, k, default) == IF k \in DOMAIN d THEN d[k] ELSE default

Range(q) == {q[i] : i \in DOMAIN q}
InList(x, q) == \E i \in DOMAIN q : q[i] = x
NoDup(q) == \A i, j \in DOMAIN q : i # j => q[i] # q[j]

RECURSIVE ListRemove(_, _)
\* list.remove(x): drops the first occurrence (the caller checks membership)
ListRemove(q, x) ==
    IF q = <<>> THEN <<>>
    ELSE IF Head(q) = x THEN Tail(q)
    ELSE <<Head(q)>> \o ListRemove(Tail(q), x)

RECURSIVE Perms(_)
\* every iteration order of a Python set
Perms(S) ==
    IF S = {} THEN {<<>>}
    ELSE UNION {{<<x>> \o p : p \in Perms(S \ {x})} : x \in S}

---------------------------------------------------------------------------
(* Enumerations and module-level tables of partial.py.                     *)

Model == "Model"
Seed == "Seed"
Snapshot == "Snapshot"
Analysis == "Analysis"
SingularTest == "SingularTest"
Macro == "Macro"
GenericTest == "GenericTest"
Schema == "Schema"
Documentation == "Documentation"
Fixture == "Fixture"

mssat_files == {Model, Seed, Snapshot, Analysis, SingularTest}

mg_files == {Macro, GenericTest}

key_to_prefix ==
    [models |-> "model", seeds |-> "seed", snapshots |-> "snapshot",
     analyses |-> "analysis"]

parse_file_type_to_key ==
    (Model :> "models") @@ (Seed :> "seeds") @@ (Snapshot :> "snapshots")
    @@ (Analysis :> "analyses")

special_override_macros ==
    {"ref", "source", "config", "generate_schema_name",
     "generate_database_name", "generate_alias_name"}

\* dbt.contracts.files.parse_file_type_to_parser
parse_file_type_to_parser ==
    (Macro :> "MacroParser") @@ (GenericTest :> "GenericTestParser")
    @@ (Model :> "ModelParser") @@ (Snapshot :> "SnapshotParser")
    @@ (Analysis :> "AnalysisParser") @@ (SingularTest :> "SingularTestParser")
    @@ (Documentation :> "DocumentationParser") @@ (Seed :> "SeedParser")
    @@ (Schema :> "SchemaParser") @@ (Fixture :> "FixtureParser")

\* dbt.constants.DEFAULT_ENV_PLACEHOLDER
DEFAULT_ENV_PLACEHOLDER == "DBT_DEFAULT_PLACEHOLDER"


---------------------------------------------------------------------------
(* Shapes of the objects the planner reads: files (dbt.contracts.files),   *)
(* manifest entries (dbt.contracts.graph.nodes) and YAML elements.         *)

\* A YAML element of a schema file section.  rev stands for the rest of the
\* element's content; None in group/overrides means the key is absent.
Elem(name, rev, group, versions, overrides, relation) ==
    [name |-> name, rev |-> rev, group |-> group, versions |-> versions,
     overrides |-> overrides, relation |-> relation]

PlainElem(name, rev) == Elem(name, rev, None, FALSE, None, FALSE)

\* pp_dict = None (a schema file nothing has been merged into yet)
NonePPDict == [None |-> <<>>]

\* SourceFile (also the documentation file) and FixtureSourceFile
SourceFile(file_id, parse_file_type, project_name, checksum) ==
    [file_id |-> file_id, parse_file_type |-> parse_file_type,
     project_name |-> project_name, checksum |-> checksum,
     contents |-> checksum, env_vars |-> {}, nodes |-> <<>>, macros |-> <<>>,
     docs |-> <<>>, fixture |-> None, unit_tests |-> <<>>]

\* SchemaSourceFile as read_files creates it: only the YAML is filled in
SchemaSourceFile(file_id, project_name, checksum, dfy) ==
    [file_id |-> file_id, parse_file_type |-> Schema,
     project_name |-> project_name, checksum |-> checksum,
     contents |-> checksum, dfy |-> dfy, pp_dict |-> NonePPDict,
     node_patches |-> <<>>, macro_patches |-> EmptyDict, data_tests |-> EmptyDict,
     sources |-> <<>>, exposures |-> <<>>, metrics |-> <<>>, groups |-> <<>>,
     semantic_models |-> <<>>, saved_queries |-> <<>>, unit_tests |-> <<>>,
     snapshots |-> <<>>, env_vars |-> EmptyDict, unrendered_configs |-> {},
     generated_metrics |-> <<>>, metrics_from_measures |-> EmptyDict]

\* SchemaSourceFile.dict_from_yaml is the property returning dfy
dict_from_yaml(schema_file) == schema_file.dfy

\* a node of manifest.nodes or a shadow in manifest.disabled
Node(unique_id, name, file_id, patch_path, group, resource_type, test_node_type) ==
    [unique_id |-> unique_id, name |-> name, file_id |-> file_id,
     patch_path |-> patch_path, group |-> group, is_versioned |-> Len(unique_id) > 3,
     resource_type |-> resource_type, test_node_type |-> test_node_type,
     package_name |-> unique_id[2]]

MacroEntry(unique_id, file_id, patch_path) ==
    [unique_id |-> unique_id, name |-> unique_id[3], file_id |-> file_id,
     patch_path |-> patch_path, package_name |-> unique_id[2]]

SourceDefinition(unique_id, file_id) ==
    [unique_id |-> unique_id, source_name |-> unique_id[3], name |-> unique_id[4],
     file_id |-> file_id, package_name |-> unique_id[2]]

\* exposure, metric, group, semantic model, saved query, unit test, doc, fixture
Entry(unique_id, name, file_id) ==
    [unique_id |-> unique_id, name |-> name, file_id |-> file_id]

\* dict keyed by unique_id from a set of entries
ById(entries) ==
    [u \in {e.unique_id : e \in entries} |-> CHOOSE e \in entries : e.unique_id = u]

---------------------------------------------------------------------------
(* The project the planner is run on: a saved manifest produced by a full  *)
(* parse of the files F0, and the ways the files and the environment may   *)
(* differ at the next invocation.                                          *)

fA == "proj://models/a.sql"
fB == "proj://models/b.sql"
fC == "proj://models/c.sql"
fN == "proj://models/n.sql"
fE1 == "proj://models/e.sql"
fE2 == "proj://models/old/e.sql"
fV == "proj://models/v_v1.sql"
fM1 == "proj://macros/m1.sql"
fM2 == "proj://macros/m2.sql"
fS == "proj://models/schema.yml"
fS2 == "proj://snapshots/snap.yml"
fO == "proj://models/over.yml"
fP == "pkg://models/src.yml"
fD == "proj://docs/d.md"
fX == "proj://tests/fixtures/fx.csv"

uA == <<"model", "proj", "a">>
uB == <<"model", "proj", "b">>
uC == <<"model", "proj", "c">>
uN == <<"model", "proj", "n">>
uE == <<"model", "proj", "e">>
uV == <<"model", "proj", "v", "v1">>
uT == <<"test", "proj", "not_null_a">>
uSnap == <<"snapshot", "proj", "snap1">>
uRef == <<"macro", "proj", "ref">>
uM1 == <<"macro", "proj", "m1">>
uM2 == <<"macro", "proj", "m2">>
uSrc == <<"source", "pkg", "s", "t">>
uSrc2 == <<"source", "pkg", "s2", "t">>
uDoc == <<"doc", "proj", "d">>
uFx == <<"fixture", "proj", "fx">>
uUT == <<"unit_test", "proj", "a", "ut1">>
uExp == <<"exposure", "proj", "e1">>
uGrp == <<"group", "proj", "g1">>
uSM == <<"semantic_model", "proj", "sm1">>
uMet == <<"metric", "proj", "me1">>
uSM2 == <<"semantic_model", "proj", "sm2">>
uMG == <<"metric", "proj", "mg1">>
uMGd == <<"metric", "proj", "mgd">>
uMG2 == <<"metric", "proj", "mg2">>
uSQ == <<"saved_query", "proj", "sq1">>

\* the YAML of the schema files, saved and edited
\* the one element of each section that defines an entry
DefinedBy ==
    [exposures |-> "e1", groups |-> "g1", semantic_models |-> "sm1", metrics |-> "me1",
     saved_queries |-> "sq1"]

\* revs gives the rev of the element of each defining section, "0" when the
\* element is gone (and with it the section, semantic_models but for sm2)
YamlSWith(a_elems, ref_rev, ut_rev, revs) ==
    (IF a_elems = <<>> THEN EmptyDict ELSE [models |-> a_elems])
    @@ [macros |-> <<PlainElem("ref", ref_rev)>>,
        unit_tests |-> <<PlainElem("ut1", ut_rev)>>]
    @@ [key \in {k \in DOMAIN DefinedBy : revs[k] # "0" \/ k = "semantic_models"} |->
           (IF revs[key] # "0" THEN <<PlainElem(DefinedBy[key], revs[key])>> ELSE <<>>)
           \o (IF key = "semantic_models" THEN <<PlainElem("sm2", "1")>> ELSE <<>>)]

SavedRevs == [key \in DOMAIN DefinedBy |-> "1"]

YamlS(a_elems, ref_rev, ut_rev) == YamlSWith(a_elems, ref_rev, ut_rev, SavedRevs)

ElemA(group) == Elem("a", "1", group, FALSE, None, FALSE)

\* the element a with a versions key
ElemAVersions(group) == Elem("a", "1", group, TRUE, None, FALSE)

\* a sources element named s that overrides the source s of package pkg
ElemOver(rev) == Elem("s", rev, None, FALSE, "pkg", FALSE)

YamlS2V(c_rev, snap_rev, s_elems, v_rev) ==
    [models |-> <<PlainElem("c", c_rev), PlainElem("e", "1"), PlainElem("v", v_rev)>>,
     snapshots |-> <<Elem("snap1", snap_rev, None, FALSE, None, TRUE)>>]
    @@ (IF s_elems = <<>> THEN EmptyDict ELSE [sources |-> s_elems])

YamlS2(c_rev, snap_rev, s_elems) == YamlS2V(c_rev, snap_rev, s_elems, "1")

YamlP(s_rev, with_s2) ==
    [sources |-> <<PlainElem("s", s_rev)>>
                 \o (IF with_s2 THEN <<PlainElem("s2", "1")>> ELSE <<>>)]

YamlO == [sources |-> <<ElemOver("1")>>]

\* the files of the saved manifest, as the full parse of F0 left them
SavedFiles ==
    (fA :> [SourceFile(fA, Model, "proj", "1") EXCEPT !.nodes = <<uA>>])
    @@ (fB :> [SourceFile(fB, Model, "proj", "1") EXCEPT
                   !.nodes = <<uB>>, !.env_vars = {"V1"}])
    @@ (fC :> [SourceFile(fC, Model, "proj", "1") EXCEPT !.nodes = <<uC>>])
    @@ (fE1 :> [SourceFile(fE1, Model, "proj", "1") EXCEPT !.nodes = <<uE>>])
    @@ (fE2 :> [SourceFile(fE2, Model, "proj", "1") EXCEPT !.nodes = <<uE>>])
    @@ (fV :> [SourceFile(fV, Model, "proj", "1") EXCEPT !.nodes = <<uV>>])
    @@ (fM1 :> [SourceFile(fM1, Macro, "proj", "1") EXCEPT
                    !.macros = <<uM1>>, !.env_vars = {"V4"}])
    @@ (fM2 :> [SourceFile(fM2, Macro, "proj", "1") EXCEPT !.macros = <<uM2, uRef>>])
    @@ (fD :> [SourceFile(fD, Documentation, "proj", "1") EXCEPT
                   !.docs = <<uDoc>>, !.nodes = <<uA, uSrc, uExp, uM1>>])
    @@ (fX :> [SourceFile(fX, Fixture, "proj", "1") EXCEPT
                   !.fixture = uFx, !.unit_tests = <<uUT>>, !.env_vars = {"V2"}])
    @@ (fS :> [SchemaSourceFile(fS, "proj", "1", YamlS(<<ElemA("g1")>>, "1", "1")) EXCEPT
                   !.node_patches = <<uA>>,
                   !.macro_patches = ("ref" :> uRef),
                   !.data_tests = (<<"models", "a">> :> <<uT>>),
                   !.unit_tests = <<uUT>>, !.exposures = <<uExp>>,
                   !.groups = <<uGrp>>, !.semantic_models = <<uSM, uSM2>>,
                   !.metrics_from_measures = ("sm1" :> <<uMG, uMGd>>) @@ ("sm2" :> <<uMG2>>),
                   !.metrics = <<uMet>>, !.saved_queries = <<uSQ>>,
                   !.env_vars = (<<"models", "a">> :> {"V3"})])
    @@ (fS2 :> [SchemaSourceFile(fS2, "proj", "1", YamlS2("1", "1", <<ElemOver("1")>>)) EXCEPT
                   !.node_patches = <<uC, uE, uV>>, !.snapshots = <<uSnap>>,
                   !.env_vars = (<<"sources", "s">> :> {"V3"})])
    @@ (fP :> [SchemaSourceFile(fP, "pkg", "1", YamlP("1", FALSE)) EXCEPT
                   !.sources = <<uSrc>>,
                   !.env_vars = (<<"sources", "s">> :> {"V3"})])

SavedManifest ==
    [files |-> SavedFiles,
     nodes |-> ById({Node(uA, "a", fA, fS, "g1", "model", None),
                     Node(uB, "b", fB, None, None, "model", None),
                     Node(uC, "c", fC, fS2, None, "model", None),
                     Node(uV, "v", fV, fS2, None, "model", None),
                     Node(uT, "not_null_a", fS, None, None, "test", "generic"),
                     Node(uSnap, "snap1", fS2, None, None, "snapshot", None)}),
     sources |-> ById({SourceDefinition(uSrc, fP)}),
     macros |-> ById({MacroEntry(uM1, fM1, None), MacroEntry(uM2, fM2, None),
                      MacroEntry(uRef, fM2, fS)}),
     docs |-> ById({Entry(uDoc, "d", fD)}),
     fixtures |-> ById({Entry(uFx, "fx", fX)}),
     exposures |-> ById({Entry(uExp, "e1", fS)}),
     metrics |-> ById({Entry(uMet, "me1", fS), Entry(uMG, "mg1", fS),
                       Entry(uMG2, "mg2", fS)}),
     groups |-> ById({Entry(uGrp, "g1", fS)}),
     semantic_models |-> ById({Entry(uSM, "sm1", fS), Entry(uSM2, "sm2", fS)}),
     saved_queries |-> ById({Entry(uSQ, "sq1", fS)}),
     unit_tests |-> ById({Entry(uUT, "ut1", fS)}),
     disabled |-> (uE :> <<Node(uE, "e", fE1, None, None, "model", None),
                           Node(uE, "e", fE2, fS2, None, "model", None)>>)
                  @@ (uMGd :> <<Entry(uMGd, "mgd", fS)>>),
     env_vars |-> [V1 |-> "x", V2 |-> "x", V3 |-> DEFAULT_ENV_PLACEHOLDER, V4 |-> "x"],
     child_map |-> (uA :> <<uSM, uB, uSnap, uT, uExp, uUT>>) @@ (uB :> <<>>)
                   @@ (uC :> <<>>) @@ (uT :> <<>>) @@ (uSnap :> <<>>)
                   @@ (uV :> <<uB>>)
                   @@ (uSrc :> <<uB, uC>>) @@ (uExp :> <<>>) @@ (uSM :> <<uMet>>)
                   @@ (uMet :> <<uSQ>>) @@ (uSQ :> <<>>) @@ (uUT :> <<>>)
                   @@ (uSM2 :> <<>>) @@ (uMG :> <<>>) @@ (uMG2 :> <<>>),
     group_map |-> [g1 |-> <<uA>>],
     macro_edges |-> (uM2 :> <<uM1>>) @@ (uM1 :> <<uB, uT>>) @@ (uRef :> <<>>)]

\* the environment at the time of the full parse (V3 unset: its default was used)
SavedEnviron == [V1 |-> "x", V2 |-> "x", V4 |-> "x"]

\* how a schema file differs when it has lost the element of a defining section
DeletedSection ==
    {"del_exposures", "del_groups", "del_semantic_models", "del_metrics",
     "del_saved_queries"}

SectionOf ==
    [del_exposures |-> "exposures", del_groups |-> "groups",
     del_semantic_models |-> "semantic_models", del_metrics |-> "metrics",
     del_saved_queries |-> "saved_queries"]

\* One difference between the saved state and the next invocation:
\* <<file_id, how the file differs>> or <<env var, its value now>>.
FileDiffs ==
    ({fA, fB, fC, fE1, fE2, fV, fM1, fM2, fD, fX, fS, fS2, fP} \X {"absent"})
    \cup ({fA, fB, fC, fE1, fE2, fV, fM1, fM2, fD, fX} \X {"edited"})
    \cup ({fN, fO} \X {"added"})
    \cup ({fS} \X {"group", "macro", "del_a", "unit_test", "versions", "group_versions"})
    \cup ({fS} \X (DOMAIN DefinedBy \cup DeletedSection))
    \cup ({fS2} \X {"patch", "snapshot", "override", "del_override", "version_patch"})
    \cup ({fP} \X {"source", "new_source"})

EnvDiffs == ({"V1", "V2"} \X {"y", "unset"}) \cup {<<"V3", "y">>, <<"V4", "y">>}

Differences == FileDiffs \cup EnvDiffs

\* the number of differences in one invocation
MaxDiff == 2

RECURSIVE Scenarios(_)
Scenarios(k) ==
    IF k = 0 THEN {{}}
    ELSE LET smaller == Scenarios(k - 1)
         IN smaller \cup
            {X \cup {d} : X \in smaller,
                          d \in Differences}

OneEach(scn) == \A d, e \in scn : d[1] = e[1] => d = e

How(scn, item) ==
    IF \E d \in scn : d[1] = item THEN (CHOOSE d \in scn : d[1] = item)[2] ELSE "same"

\* the file as read_files reads it at the next invocation
ReadFile(files, file_id, how) ==
    LET old == files[file_id]
        sum == IF how = "same" THEN "1" ELSE "2"
    IN  IF file_id = fN THEN SourceFile(fN, Model, "proj", "1")
        ELSE IF file_id = fO THEN SchemaSourceFile(fO, "proj", "1", YamlO)
        ELSE IF file_id = fS THEN
            SchemaSourceFile(fS, "proj", sum,
                CASE how = "group" -> YamlS(<<ElemA("g2")>>, "1", "1")
                  [] how = "macro" -> YamlS(<<ElemA("g1")>>, "2", "1")
                  [] how = "del_a" -> YamlS(<<>>, "1", "1")
                  [] how = "unit_test" -> YamlS(<<ElemA("g1")>>, "1", "2")
                  [] how = "versions" -> YamlS(<<ElemAVersions("g1")>>, "1", "1")
                  [] how = "group_versions" -> YamlS(<<ElemAVersions("g2")>>, "1", "1")
                  [] how \in DOMAIN DefinedBy ->
                         YamlSWith(<<ElemA("g1")>>, "1", "1", [SavedRevs EXCEPT ![how] = "2"])
                  [] how \in DeletedSection ->
                         YamlSWith(<<ElemA("g1")>>, "1", "1",
                                   [SavedRevs EXCEPT ![SectionOf[how]] = "0"])
                  [] OTHER -> old.dfy)
        ELSE IF file_id = fS2 THEN
            SchemaSourceFile(fS2, "proj", sum,
                CASE how = "patch" -> YamlS2("2", "1", <<ElemOver("1")>>)
                  [] how = "snapshot" -> YamlS2("1", "2", <<ElemOver("1")>>)
                  [] how = "override" -> YamlS2("1", "1", <<ElemOver("2")>>)
                  [] how = "del_override" -> YamlS2("1", "1", <<>>)
                  [] how = "version_patch" -> YamlS2V("1", "1", <<ElemOver("1")>>, "2")
                  [] OTHER -> old.dfy)
        ELSE IF file_id = fP THEN
            SchemaSourceFile(fP, "pkg", sum,
                CASE how = "source" -> YamlP("2", FALSE)
                  [] how = "new_source" -> YamlP("1", TRUE)
                  [] OTHER -> old.dfy)
        ELSE SourceFile(file_id, old.parse_file_type, old.project_name, sum)

NewFilesOf(files, scn) ==
    LET present == {f \in DOMAIN files : How(scn, f) # "absent"}
                   \cup {f \in {fN, fO} : How(scn, f) = "added"}
    IN  [f \in present |-> ReadFile(files, f, How(scn, f))]

EnvironOf(scn) ==
    LET set == {v \in {"V1", "V2", "V3", "V4"} :
                  IF How(scn, v) = "same" THEN v \in DOMAIN SavedEnviron
                  ELSE How(scn, v) # "unset"}
    IN  [v \in set |-> IF How(scn, v) = "same" THEN SavedEnviron[v] ELSE How(scn, v)]

---------------------------------------------------------------------------
(* __init__: the env var diff, the file diff and skip_parsing.             *)

RECURSIVE InsertionOrder(_)
\* the order in which a dict yields the keys S (fixed by the dict's history)
InsertionOrder(S) ==
    IF S = {} THEN <<>>
    ELSE LET x == CHOOSE y \in S : TRUE IN <<x>> \o InsertionOrder(S \ {x})

getenv(environ, env_var) == Get(environ, env_var, None)

\* fault for C26: a var that read by its default and is still unset is changed
changed_vars_with_defaults(manifest, environ) ==
    {v \in DOMAIN manifest.env_vars : manifest.env_vars[v] # getenv(environ, v)}

\* lines 1088-1104: the saved env vars whose value is not the saved one
changed_vars(manifest, environ) ==
    {v \in DOMAIN manifest.env_vars :
        LET prev_value == manifest.env_vars[v]
            current_value == getenv(environ, v)
        IN  ~(current_value = None /\ prev_value = DEFAULT_ENV_PLACEHOLDER)
            /\ prev_value # current_value}

\* lines 1091-1100: the saved env vars that are no longer set
delete_vars(manifest, environ) ==
    {v \in DOMAIN manifest.env_vars :
        getenv(environ, v) = None /\ manifest.env_vars[v] # DEFAULT_ENV_PLACEHOLDER}

unchanged_vars(manifest, environ) ==
    {v \in DOMAIN manifest.env_vars :
        LET prev_value == manifest.env_vars[v]
            current_value == getenv(environ, v)
        IN  (current_value = None /\ prev_value = DEFAULT_ENV_PLACEHOLDER)
            \/ prev_value = current_value}

\* fault for C3: model files are skipped like fixture files
env_var_files_skipped_with_models == {Fixture, Model}

\* line 1116: fixture files are skipped before their env_vars are looked at
env_var_files_skipped == {Fixture}

\* lines 1115-1138, non-schema files: the file_ids appended
env_changed_source_file_ids(manifest, environ) ==
    {f \in DOMAIN manifest.files :
        LET source_file == manifest.files[f]
        IN  /\ source_file.parse_file_type \notin env_var_files_skipped
            /\ source_file.parse_file_type # Schema
            /\ source_file.env_vars \cap changed_vars(manifest, environ) # {}}

\* lines 1121-1132, schema files: {file_id: {yaml_key: [name, ...]}}
env_changed_schema_files(manifest, environ) ==
    LET hit(f) == {kn \in DOMAIN manifest.files[f].env_vars :
                      manifest.files[f].env_vars[kn] \cap changed_vars(manifest, environ) # {}}
        ids == {f \in DOMAIN manifest.files :
                   manifest.files[f].parse_file_type = Schema /\ hit(f) # {}}
    IN  [f \in ids |->
            [k \in {kn[1] : kn \in hit(f)} |->
                InsertionOrder({kn[2] : kn \in {x \in hit(f) : x[1] = k}})]]

\* lines 1082-1140: what the call leaves in the manifest and returns
build_env_vars_to_files(manifest, environ) ==
    [manifest |-> [manifest EXCEPT !.env_vars =
                      [v \in DOMAIN manifest.env_vars \ delete_vars(manifest, environ)
                          |-> manifest.env_vars[v]]],
     source_files |-> env_changed_source_file_ids(manifest, environ),
     schema_files |-> env_changed_schema_files(manifest, environ)]

\* lines 101-135: the lists before the env-affected files are appended
checksum_diff(saved_files, new) ==
    LET saved_file_ids == DOMAIN saved_files
        new_file_ids == DOMAIN new
        deleted_all_files == saved_file_ids \ new_file_ids
        common == saved_file_ids \cap new_file_ids
        differ == {f \in common : saved_files[f].checksum # new[f].checksum}
    IN  [added |-> new_file_ids \ saved_file_ids,
         deleted_schema_files |->
             {f \in deleted_all_files : saved_files[f].parse_file_type = Schema},
         deleted |-> {f \in deleted_all_files : saved_files[f].parse_file_type # Schema},
         changed |-> {f \in differ : saved_files[f].parse_file_type # Schema},
         changed_schema_files |-> {f \in differ : saved_files[f].parse_file_type = Schema},
         unchanged |-> common \ differ]

\* fault for C4: no env-affected file is appended to changed
env_appended_changed_none(diff, source_file_ids) == {}

\* lines 138-141: env-affected non-schema files appended to changed
env_appended_changed(diff, source_file_ids) ==
    {f \in source_file_ids : f \notin diff.deleted /\ f \notin diff.changed}

\* fault for C10: every env-affected schema file is appended, listed or not
env_appended_changed_schema_unchecked(diff, schema_file_ids) == schema_file_ids

\* lines 144-147: env-affected schema files appended to changed_schema_files
env_appended_changed_schema(diff, schema_file_ids) ==
    {f \in schema_file_ids :
        f \notin diff.deleted_schema_files /\ f \notin diff.changed_schema_files}

\* lines 100-156: every file_diff the call can build; the lists come out of
\* set and dict iterations, whose order is not fixed by the inputs
build_file_diff(saved_files, new, source_file_ids, schema_files) ==
    LET diff == checksum_diff(saved_files, new)
        appended == env_appended_changed(diff, Range(source_file_ids))
    IN  {[deleted |-> d, deleted_schema_files |-> ds, added |-> a,
          changed |-> c \o SelectSeq(source_file_ids, LAMBDA f : f \in appended),
          changed_schema_files |-> cs \o cse,
          unchanged |-> u] :
            d \in Perms(diff.deleted), ds \in Perms(diff.deleted_schema_files),
            a \in Perms(diff.added), c \in Perms(diff.changed),
            cs \in Perms(diff.changed_schema_files),
            cse \in Perms(env_appended_changed_schema(diff, DOMAIN schema_files)),
            u \in {InsertionOrder(diff.unchanged)}}

\* lines 106-134: a macro or generic test file is deleted or has a new checksum
changed_or_deleted_macro_file(saved_files, new) ==
    LET diff == checksum_diff(saved_files, new)
    IN  \E f \in diff.deleted \cup diff.changed : saved_files[f].parse_file_type \in mg_files

\* Manifest.build_macro_child_map
build_macro_child_map(manifest) == manifest.macro_edges

\* Manifest.build_disabled_by_file_id
build_disabled_by_file_id(manifest) ==
    UNION {{manifest.disabled[u][i].file_id : i \in DOMAIN manifest.disabled[u]} :
              u \in DOMAIN manifest.disabled}

\* fault for C2: the deleted schema files are forgotten
skip_parsing_without_deleted_schema_files(diff) ==
    /\ diff.deleted = <<>>
    /\ diff.added = <<>>
    /\ diff.changed = <<>>
    /\ diff.changed_schema_files = <<>>

\* lines 89-96
skip_parsing(diff) ==
    /\ diff.deleted = <<>>
    /\ diff.added = <<>>
    /\ diff.changed = <<>>
    /\ diff.changed_schema_files = <<>>
    /\ diff.deleted_schema_files = <<>>

---------------------------------------------------------------------------
(* The state a handler works on.  File objects live in a heap, because the *)
(* code keeps references to them while saved_files is re-pointed:          *)
(*   heap   reference -> file object        files  file_id -> reference    *)
(* The manifest tables, the plan (ppf), the bailout flag, the fired events *)
(* and the pending exception are the other fields; ret holds the value the *)
(* last call returned.                                                     *)

Ok(s) == s.exc = NoExc
Raise(s, exception) == IF Ok(s) THEN [s EXCEPT !.exc = exception] ELSE s

\* KeyError(unique_id): a manifest table has no entry to pop or to read
KeyErrorUniqueId == "KeyError(unique_id)"

\* AttributeError on None: no source of manifest.sources led to a schema file
AttributeErrorNone == "AttributeError(None)"
File(s, ref) == s.heap[ref]
NoneElem == PlainElem(None, None)
NoneNode == Node(<<None, None, None>>, None, None, None, None, None, None)
NoneRef == 0

\* fault for C16: the object of new_files is handed on, not a copy of it
deepcopy_new_file_shared(s, file_id) ==
    IF ~Ok(s) THEN s
    ELSE IF ~Has(s.new, file_id) THEN Raise(s, "KeyError")
    ELSE [s EXCEPT !.ret = s.new[file_id]]

\* deepcopy(self.new_files[file_id]): a new object; ret is its reference
deepcopy_new_file(s, file_id) ==
    IF ~Ok(s) THEN s
    ELSE IF ~Has(s.new, file_id) THEN Raise(s, "KeyError")
    ELSE [s EXCEPT !.heap = Put(s.heap, s.next, s.heap[s.new[file_id]]),
                   !.next = s.next + 1, !.ret = s.next]

\* self.saved_files[file_id] = deepcopy(self.new_files[file_id])
adopt_new_file(s, file_id) ==
    LET s1 == deepcopy_new_file(s, file_id)
    IN  IF ~Ok(s1) THEN s1 ELSE [s1 EXCEPT !.files = Put(s1.files, file_id, s1.ret)]

fire_event(s, event) == IF Ok(s) THEN [s EXCEPT !.events = Append(s.events, event)] ELSE s

PartialParsingFile(operation, file_id) ==
    [event |-> "PartialParsingFile", operation |-> operation, file_id |-> file_id]

\* self.method(args): the handlers below call each other through self
RECURSIVE self(_, _, _)

\* fault for C8: the file is appended without looking at the deleted lists
add_to_pp_files_unchecked(s, source_file) ==
    IF s.exc # NoExc THEN s
    ELSE
    LET file_id == File(s, source_file).file_id
        parser_name == parse_file_type_to_parser[File(s, source_file).parse_file_type]
        project == Get(s.ppf, File(s, source_file).project_name, EmptyDict)
        listed == Get(project, parser_name, <<>>)
        list == IF ~InList(file_id, listed) THEN Append(listed, file_id) ELSE listed
    IN  [s EXCEPT !.ppf = Put(s.ppf, File(s, source_file).project_name,
                              Put(project, parser_name, list))]

\* lines 196-214
add_to_pp_files(s, source_file) ==
    LET file_id == File(s, source_file).file_id
        parse_file_type == File(s, source_file).parse_file_type
        project_name == File(s, source_file).project_name
    IN  IF ~Has(parse_file_type_to_parser, parse_file_type) THEN Raise(s, "KeyError")
        ELSE
        LET parser_name == parse_file_type_to_parser[parse_file_type]
            project == Get(s.ppf, project_name, EmptyDict)
            listed == Get(project, parser_name, <<>>)
            list == IF /\ ~InList(file_id, listed)
                       /\ ~InList(file_id, file_diff.deleted)
                       /\ ~InList(file_id, file_diff.deleted_schema_files)
                    THEN Append(listed, file_id) ELSE listed
        IN  [s EXCEPT !.ppf = Put(s.ppf, project_name, Put(project, parser_name, list))]

\* lines 216-226
already_scheduled_for_parsing(s, source_file) ==
    LET file_id == File(s, source_file).file_id
        project_name == File(s, source_file).project_name
        parser_name == parse_file_type_to_parser[File(s, source_file).parse_file_type]
    IN  /\ Has(s.ppf, project_name)
        /\ Has(s.ppf[project_name], parser_name)
        /\ InList(file_id, s.ppf[project_name][parser_name])

\* lines 1045-1049
get_schema_element(elem_list, elem_name) ==
    IF \E i \in DOMAIN elem_list : elem_list[i].name = elem_name
    THEN elem_list[CHOOSE i \in DOMAIN elem_list :
                      /\ elem_list[i].name = elem_name
                      /\ \A j \in 1..(i - 1) : elem_list[j].name # elem_name]
    ELSE NoneElem

\* lines 762-799; a later element of the same name replaces an earlier one
get_diff_for(key, saved_yaml_dict, new_yaml_dict) ==
    IF ~(Has(saved_yaml_dict, key) \/ Has(new_yaml_dict, key))
    THEN [deleted |-> <<>>, added |-> <<>>, changed |-> <<>>]
    ELSE
    LET saved_elements == Get(saved_yaml_dict, key, <<>>)
        new_elements == Get(new_yaml_dict, key, <<>>)
        by_name(elements, name) ==
            elements[CHOOSE i \in DOMAIN elements :
                        /\ elements[i].name = name
                        /\ \A j \in (i + 1)..Len(elements) : elements[j].name # name]
        saved_element_names == {e.name : e \in Range(saved_elements)}
        new_element_names == {e.name : e \in Range(new_elements)}
        deleted == InsertionOrder(saved_element_names \ new_element_names)
        added == InsertionOrder(new_element_names \ saved_element_names)
        changed == InsertionOrder(
            {n \in saved_element_names \cap new_element_names :
                by_name(saved_elements, n) # by_name(new_elements, n)})
    IN  [deleted |-> [i \in DOMAIN deleted |-> by_name(saved_elements, deleted[i])],
         added |-> [i \in DOMAIN added |-> by_name(new_elements, added[i])],
         changed |-> [i \in DOMAIN changed |-> by_name(new_elements, changed[i])],
         changed_or_deleted_names |-> changed \o deleted]

\* SchemaSourceFile.delete_from_env_vars and delete_from_unrendered_configs
delete_from_env_vars(s, schema_file, key, name) ==
    [s EXCEPT !.heap[schema_file].env_vars = Pop(@, <<key, name>>),
              !.heap[schema_file].unrendered_configs = @ \ {<<key, name>>}]

\* history: the record of one observed call is appended once the call returns
observe(s, record) ==
    IF Ok(s) THEN [s EXCEPT !.observed = Append(@, record)] ELSE s

\* fault for C22: the patch is appended whatever pp_dict[key] holds
merged_list_appended(pp_dict, key, patch, new_patch) ==
    Append(Get(pp_dict, key, <<>>), patch)

\* lines 809-822: pp_dict[key] once patch is merged
merged_list(pp_dict, key, patch, new_patch) ==
    LET same == IF Has(pp_dict, key)
                THEN {i \in DOMAIN pp_dict[key] : pp_dict[key][i].name = patch.name}
                ELSE {}
        found_elem == pp_dict[key][CHOOSE i \in same : \A j \in same : j <= i]
    IN  IF ~Has(pp_dict, key) THEN <<patch>>
        ELSE IF same = {} THEN Append(pp_dict[key], patch)
        ELSE IF new_patch THEN Append(ListRemove(pp_dict[key], found_elem), patch)
        ELSE pp_dict[key]

\* lines 804-825
merge_patch(s, schema_file, key, patch, new_patch) ==
    LET pp_dict == IF File(s, schema_file).pp_dict = NonePPDict THEN EmptyDict
                   ELSE File(s, schema_file).pp_dict
        list == merged_list(pp_dict, key, patch, new_patch)
        s1 == [s EXCEPT !.heap[schema_file].pp_dict = Put(pp_dict, key, list)]
        s2 == self(self(s1, "delete_from_env_vars", <<schema_file, key, patch.name>>),
                   "add_to_pp_files", <<schema_file>>)
    IN  observe(s2, [call |-> "merge_patch", file_id |-> File(s, schema_file).file_id,
                     key |-> key, patch |-> patch, new_patch |-> new_patch,
                     before |-> pp_dict, after |-> File(s2, schema_file).pp_dict,
                     planned |-> already_scheduled_for_parsing(s2, schema_file)])

\* lines 248-262; ret is the shadow removed
delete_disabled(s, unique_id, file_id) ==
    IF ~Has(s.disabled, unique_id) THEN Raise(s, KeyErrorUniqueId)
    ELSE
    LET shadows == s.disabled[unique_id]
        hits == {i \in DOMAIN shadows : shadows[i].file_id = file_id}
    IN  IF hits = {} THEN Raise(s, "UnboundLocalError")
        ELSE
        LET index == CHOOSE i \in hits : \A j \in hits : i <= j
            rest == [i \in 1..(Len(shadows) - 1) |->
                        IF i < index THEN shadows[i] ELSE shadows[i + 1]]
        IN  [s EXCEPT !.disabled = IF rest = <<>> THEN Pop(s.disabled, unique_id)
                                   ELSE Put(s.disabled, unique_id, rest),
                      !.ret = shadows[index]]

\* SchemaSourceFile.get_tests
get_tests(s, schema_file, yaml_key, name) ==
    Get(File(s, schema_file).data_tests, <<yaml_key, name>>, <<>>)

\* SchemaSourceFile.get_key_and_name_for_test
get_key_and_name_for_test(s, schema_file, test_unique_id) ==
    LET data_tests == File(s, schema_file).data_tests
        hits == {kn \in DOMAIN data_tests : InList(test_unique_id, data_tests[kn])}
    IN  IF hits = {} THEN <<None, None>> ELSE CHOOSE kn \in hits : TRUE

\* lines 880-885
remove_tests(s, schema_file, dict_key, name) ==
    LET tests == Range(get_tests(s, schema_file, dict_key, name))
    IN  [s EXCEPT !.nodes = [u \in DOMAIN s.nodes \ tests |-> s.nodes[u]],
                  !.heap[schema_file].data_tests = Pop(@, <<dict_key, name>>)]

---------------------------------------------------------------------------
(* The handlers that call each other.                                      *)

RECURSIVE schedule_nodes_for_parsing(_, _)
RECURSIVE remove_mssat_each(_, _, _)
RECURSIVE macro_links_each(_, _, _, _)
RECURSIVE schedule_macro_nodes_for_parsing(_, _)
RECURSIVE schema_source_each(_, _, _, _)
RECURSIVE schema_group_each(_, _, _, _)
RECURSIVE schema_metric_each(_, _, _, _)
RECURSIVE schema_saved_query_each(_, _, _, _)
RECURSIVE schema_semantic_model_each(_, _, _, _)

\* history: the entry is popped from its table in the step from s1, the state
\* that scheduling its dependents has left, to s2; left holds the dependents
\* that a table of s1 still has
popped(s1, s2, table, unique_id, dependents) ==
    observe(s2, [call |-> "popped", table |-> table, unique_id |-> unique_id,
                 held |-> Has(s1[table], unique_id),
                 left |-> {d \in Range(dependents) :
                              \E x \in {"nodes", "sources", "macros", "exposures",
                                         "metrics", "semantic_models", "saved_queries",
                                         "unit_tests"} : Has(s1[x], d)}])

\* the delete callable handed to _schedule_for_parsing (lines 430-469)
\* and to _handle_element_change (lines 700-734), named by its section
delete_schema ==
    [sources |-> "delete_schema_source", macros |-> "delete_schema_macro_patch",
     data_tests |-> "delete_schema_data_test_patch",
     exposures |-> "delete_schema_exposure", metrics |-> "delete_schema_metric",
     groups |-> "delete_schema_group",
     semantic_models |-> "delete_schema_semantic_model",
     unit_tests |-> "delete_schema_unit_test",
     saved_queries |-> "delete_schema_saved_query"]

\* isinstance(source_file, SourceFile): not a schema file, not a fixture file
IsSourceFile(file) == file.parse_file_type \notin {Schema, Fixture}

\* isinstance(schema_file, SchemaSourceFile)
IsSchemaSourceFile(file) == Has(file, "dfy")

\* lines 371-375: the shadows of unique_id lose their patch_path
clear_disabled_patch_path(s, unique_id) ==
    IF s.exc = NoExc /\ Has(s.disabled, unique_id)
    THEN [s EXCEPT !.disabled[unique_id] =
             [i \in DOMAIN @ |-> [@[i] EXCEPT !.patch_path = None]]]
    ELSE s

\* fault for C23: the node's patch is not merged into its schema file
reapply_node_patch_dropped(s, source_file, unique_id, node) ==
    self(s, "clear_disabled_patch_path", <<unique_id>>)

\* lines 343-375, once the node is removed
reapply_node_patch(s, source_file, unique_id, node) ==
    IF s.exc # NoExc \/ node.patch_path = None THEN s
    ELSE
    LET file_id == node.patch_path
        s1 ==
            IF /\ ~InList(file_id, file_diff.deleted)
               /\ Has(s.files, file_id)
               /\ Has(parse_file_type_to_key, File(s, source_file).parse_file_type)
            THEN
                LET schema_file == s.files[file_id]
                    dict_key == parse_file_type_to_key[File(s, source_file).parse_file_type]
                    elem_patch ==
                        IF ~IsSchemaSourceFile(File(s, schema_file)) THEN NoneElem
                        ELSE get_schema_element(
                                Get(dict_from_yaml(File(s, schema_file)), dict_key, <<>>),
                                node.name)
                IN  IF ~IsSchemaSourceFile(File(s, schema_file))
                    THEN Raise(s, "AttributeError")
                    ELSE IF elem_patch = NoneElem THEN s
                    ELSE
                    LET s2 == self(self(s, "delete_schema_mssa_links",
                                        <<schema_file, dict_key, elem_patch>>), "merge_patch",
                                   <<schema_file, dict_key, elem_patch, FALSE>>)
                    IN  IF s2.exc = NoExc /\ InList(unique_id, File(s2, schema_file).node_patches)
                        THEN [s2 EXCEPT !.heap[schema_file].node_patches =
                                            ListRemove(@, unique_id)]
                        ELSE s2
            ELSE s
    IN  self(s1, "clear_disabled_patch_path", <<unique_id>>)

\* lines 329-342: the node removed, from nodes or from its shadows
node_removed(s, source_file, unique_id) ==
    IF Has(s.nodes, unique_id)
    THEN [s EXCEPT !.nodes = Pop(@, unique_id), !.ret = s.nodes[unique_id]]
    ELSE IF File(s, source_file).file_id \in disabled_by_file_id
            /\ Has(s.disabled, unique_id)
    THEN self(s, "delete_disabled", <<unique_id, File(s, source_file).file_id>>)
    ELSE [s EXCEPT !.ret = NoneNode]

\* lines 329-375
remove_node_in_saved(s, source_file, unique_id) ==
    LET s1 == self(s, "node_removed", <<source_file, unique_id>>)
        node == s1.ret
        s2 == IF Ok(s1) /\ node # NoneNode
              THEN self(s1, "reapply_node_patch", <<source_file, unique_id, node>>)
              ELSE s1
        patch_file(t) == IF Ok(s1) /\ Has(t.files, node.patch_path)
                         THEN File(t, t.files[node.patch_path]) ELSE [file_id |-> None]
    IN  observe(s2, [call |-> "remove_node_in_saved", unique_id |-> unique_id,
                     file_id |-> File(s, source_file).file_id,
                     parse_file_type |-> File(s, source_file).parse_file_type,
                     node |-> node,
                     before |-> patch_file(s), after |-> patch_file(s2),
                     planned |-> Ok(s2) /\ Has(s2.files, node.patch_path)
                                 /\ already_scheduled_for_parsing(s2, s2.files[node.patch_path]),
                     shadows |-> Get(s.disabled, unique_id, <<>>),
                     disabled |-> Get(s2.disabled, unique_id, <<>>)])

\* lines 857-871: one node removed by delete_schema_mssa_links
mssa_links_each_node(s, elem, nodes) ==
    IF nodes = <<>> \/ s.exc # NoExc THEN s
    ELSE
    LET node == Head(nodes)
        file_id == node.file_id
        s1 == IF Has(new_files, file_id) THEN adopt_new_file(s, file_id) ELSE s
        s2 == IF s1.exc # NoExc THEN s1
              ELSE IF ~Has(s1.files, file_id) THEN Raise(s1, "KeyError")
              ELSE self(s1, "add_to_pp_files", <<s1.files[file_id]>>)
        s3 == IF node.group # elem.group
              THEN self(s2, "schedule_referencing_nodes_for_parsing", <<node.unique_id>>)
              ELSE s2
        s4 == IF node.is_versioned \/ elem.versions
              THEN self(s3, "schedule_referencing_nodes_for_parsing", <<node.unique_id>>)
              ELSE s3
    IN  self(s4, "mssa_links_each_node", <<elem, Tail(nodes)>>)

\* lines 842-873: the loop over elem_unique_ids
mssa_links_each_id(s, schema_file, elem, elem_unique_ids) ==
    IF elem_unique_ids = <<>> \/ s.exc # NoExc THEN s
    ELSE
    LET elem_unique_id == Head(elem_unique_ids)
        s1 == IF Has(s.nodes, elem_unique_id)
              THEN self([s EXCEPT !.nodes = Pop(@, elem_unique_id)], "mssa_links_each_node",
                        <<elem, <<s.nodes[elem_unique_id]>>>>)
              ELSE IF Has(s.disabled, elem_unique_id)
              THEN self([s EXCEPT !.disabled = Pop(@, elem_unique_id)], "mssa_links_each_node",
                        <<elem, s.disabled[elem_unique_id]>>)
              ELSE s
        s2 == IF s1.exc # NoExc THEN s1
              ELSE IF ~InList(elem_unique_id, File(s1, schema_file).node_patches)
              THEN Raise(s1, "ValueError")
              ELSE [s1 EXCEPT !.heap[schema_file].node_patches =
                                  ListRemove(@, elem_unique_id)]
    IN  self(s2, "mssa_links_each_id", <<schema_file, elem, Tail(elem_unique_ids)>>)

\* lines 829-878
delete_schema_mssa_links(s, schema_file, dict_key, elem) ==
    LET prefix == key_to_prefix[dict_key]
        elem_unique_ids ==
            SelectSeq(File(s, schema_file).node_patches,
                      LAMBDA unique_id : unique_id[1] = prefix /\ unique_id[3] = elem.name)
        s1 == self(s, "mssa_links_each_id", <<schema_file, elem, elem_unique_ids>>)
    IN  IF dict_key \in {"models", "seeds", "snapshots"}
        THEN self(s1, "remove_tests", <<schema_file, dict_key, elem.name>>)
        ELSE s1

\* lines 410-413
schedule_referencing_nodes_for_parsing(s, unique_id) ==
    IF s.exc = NoExc /\ Has(saved_manifest.child_map, unique_id)
    THEN self(s, "schedule_nodes_for_parsing", <<saved_manifest.child_map[unique_id]>>)
    ELSE s

\* lines 422-428 (and 581-587, 459-464, 590-595 with the macro file handler)
reschedule_file(s, file_id, is_macro_file) ==
    IF s.exc = NoExc /\ Has(s.files, file_id) /\ ~InList(file_id, file_diff.deleted)
    THEN LET source_file == s.files[file_id]
             s1 == IF is_macro_file THEN self(s, "delete_macro_file",
                                              <<source_file, FALSE>>)
                   ELSE self(s, "remove_mssat_file", <<source_file>>)
             s2 == adopt_new_file(s1, file_id)
         IN  CASE s1.exc # NoExc -> s1
               [] s2.exc # NoExc -> s2
               [] OTHER -> self(s2, "add_to_pp_files", <<s2.files[file_id]>>)
    ELSE s

\* the tables of lines 417-465, in the order the elif chain asks them
scheduled_tables ==
    <<"nodes", "sources", "exposures", "metrics", "semantic_models", "saved_queries",
      "macros", "unit_tests">>

\* the first of scheduled_tables that holds unique_id, or None
table_of(s, unique_id) ==
    LET hits == {i \in DOMAIN scheduled_tables : Has(s[scheduled_tables[i]], unique_id)}
    IN  IF hits = {} THEN None
        ELSE scheduled_tables[CHOOSE i \in hits : \A j \in hits : i <= j]

\* lines 415-469; s.entered holds the calls in progress, this one first, and
\* the return takes it off
schedule_nodes_for_parsing(s, unique_ids) ==
    IF unique_ids = <<>> \/ s.exc # NoExc THEN [s EXCEPT !.entered = Tail(@)]
    ELSE
    LET unique_id == Head(unique_ids)
        table == table_of(s, unique_id)
        s1 ==
            CASE table = None -> s
              [] table = "nodes" ->
                     IF /\ s.nodes[unique_id].resource_type = "test"
                        /\ s.nodes[unique_id].test_node_type = "generic"
                     THEN s
                     ELSE self(s, "reschedule_file", <<s.nodes[unique_id].file_id, FALSE>>)
              [] table = "macros" ->
                     self(s, "reschedule_file", <<s.macros[unique_id].file_id, TRUE>>)
              [] table = "sources" ->
                     self(s, "schedule_for_parsing",
                          <<table, s.sources[unique_id], s.sources[unique_id].source_name>>)
              [] table \in {"exposures", "metrics", "semantic_models", "saved_queries",
                            "unit_tests"} ->
                     self(s, "schedule_for_parsing",
                          <<table, s[table][unique_id], s[table][unique_id].name>>)
    IN  schedule_nodes_for_parsing(s1, Tail(unique_ids))

\* lines 471-486 (_schedule_for_parsing); delete is chosen by dict_key
schedule_for_parsing(s, dict_key, element, name) ==
    LET file_id == element.file_id
        schema_file == s.files[file_id]
        elements == Get(dict_from_yaml(File(s, schema_file)), dict_key, <<>>)
        schema_element == get_schema_element(elements, name)
        deleted == self(s, delete_schema[dict_key], <<schema_file, schema_element>>)
    IN  CASE ~(/\ s.exc = NoExc
               /\ Has(s.files, file_id)
               /\ ~InList(file_id, file_diff.deleted)
               /\ ~InList(file_id, file_diff.deleted_schema_files)) -> s
          [] ~IsSchemaSourceFile(File(s, schema_file)) -> Raise(s, "AssertionError")
          [] schema_element = NoneElem -> s
          [] deleted.exc # NoExc -> deleted
          [] OTHER -> self(deleted, "merge_patch",
                           <<schema_file, dict_key, schema_element, FALSE>>)

\* lines 405-407
remove_mssat_each(s, source_file, unique_ids) ==
    IF unique_ids = <<>> \/ s.exc # NoExc THEN s
    ELSE
    LET unique_id == Head(unique_ids)
        s1 == self(s, "remove_node_in_saved", <<source_file, unique_id>>)
        s2 == self(s1, "schedule_referencing_nodes_for_parsing", <<unique_id>>)
    IN  CASE s2.exc # NoExc -> s2
          [] OTHER -> remove_mssat_each(s2, source_file, Tail(unique_ids))

\* lines 399-407
remove_mssat_file(s, source_file) ==
    IF ~IsSourceFile(File(s, source_file)) \/ File(s, source_file).nodes = <<>>
    THEN s
    ELSE remove_mssat_each(s, source_file, File(s, source_file).nodes)

\* lines 496-504: the flag after the call
check_for_special_deleted_macros(s, source_file) ==
    IF \E i \in DOMAIN File(s, source_file).macros :
               LET unique_id == File(s, source_file).macros[i]
               IN  /\ Has(s.macros, unique_id)
                   /\ unique_id[2] # "dbt"
                   /\ s.macros[unique_id].name \in special_override_macros
    THEN [s EXCEPT !.flag = TRUE]
    ELSE s

RECURSIVE gather_each(_, _)
\* lines 506-512: gather_each walks the children still to visit; the result
\* is [nodes, err], err telling that macro_child_map lacked a key
gather_each(children, acc) ==
    IF acc.err \/ children = <<>> THEN acc
    ELSE
    LET unique_id == Head(children)
        acc1 == IF InList(unique_id, acc.nodes) THEN acc
                ELSE LET added == [acc EXCEPT !.nodes = Append(@, unique_id)]
                     IN  IF unique_id[1] = "macro"
                         THEN IF Has(macro_child_map, unique_id)
                              THEN gather_each(macro_child_map[unique_id], added)
                              ELSE [added EXCEPT !.err = TRUE]
                         ELSE added
    IN  gather_each(Tail(children), acc1)

recursively_gather_macro_references(macro_unique_id, referencing_nodes) ==
    IF Has(macro_child_map, macro_unique_id)
    THEN gather_each(macro_child_map[macro_unique_id],
                     [nodes |-> referencing_nodes, err |-> FALSE])
    ELSE [nodes |-> referencing_nodes, err |-> TRUE]

\* source_file.macros.remove(unique_id) when it is there
drop_macro_id(s, source_file, unique_id) ==
    IF s.exc = NoExc /\ InList(unique_id, File(s, source_file).macros)
    THEN [s EXCEPT !.heap[source_file].macros = ListRemove(@, unique_id)]
    ELSE s

\* lines 517-548: the loop over the copy of source_file.macros
macro_links_each(s, source_file, follow_references, macros) ==
    IF macros = <<>> \/ s.exc # NoExc THEN s
    ELSE
    LET unique_id == Head(macros)
        s4 ==
            IF ~Has(s.macros, unique_id) THEN self(s, "drop_macro_id",
                                                   <<source_file, unique_id>>)
            ELSE
            LET base_macro == s.macros[unique_id]
                s1 == [s EXCEPT !.macros = Pop(@, unique_id)]
                refs == recursively_gather_macro_references(unique_id, <<>>)
                s2 == IF macro_child_map # EmptyDict /\ follow_references
                      THEN IF refs.err THEN Raise(s1, "KeyError")
                           ELSE self(s1, "schedule_macro_nodes_for_parsing", <<refs.nodes>>)
                      ELSE s1
                s3 == IF s2.exc = NoExc /\ base_macro.patch_path # None
                         /\ Has(s2.files, base_macro.patch_path)
                      THEN LET schema_file == s2.files[base_macro.patch_path]
                               macro_patches ==
                                   Get(dict_from_yaml(File(s2, schema_file)), "macros", <<>>)
                               macro_patch ==
                                   get_schema_element(macro_patches, base_macro.name)
                           IN  self(self(s2, "delete_schema_macro_patch",
                                         <<schema_file, macro_patch>>), "merge_patch",
                                    <<schema_file, "macros", macro_patch, FALSE>>)
                      ELSE s2
            IN  self(s3, "drop_macro_id", <<source_file, unique_id>>)
    IN  macro_links_each(s4, source_file, follow_references, Tail(macros))

\* lines 514-548
handle_macro_file_links(s, source_file, follow_references) ==
    macro_links_each(s, source_file, follow_references, File(s, source_file).macros)

\* lines 488-494
delete_macro_file(s, source_file, follow_references) ==
    LET s1 == self(self(s, "check_for_special_deleted_macros", <<source_file>>), "handle_macro_file_links",
                   <<source_file, follow_references>>)
        file_id == File(s, source_file).file_id
    IN  IF s1.exc = NoExc THEN [s1 EXCEPT !.files = Pop(@, file_id)] ELSE s1

\* lines 558-579: a generic test reached through the macro graph
reschedule_generic_test(s, unique_id, node) ==
    LET schema_file_id == node.file_id IN
    IF ~Has(s.files, schema_file_id) THEN Raise(s, "KeyError")
    ELSE
    LET schema_file == s.files[schema_file_id] IN
    IF ~IsSchemaSourceFile(File(s, schema_file)) THEN Raise(s, "AttributeError")
    ELSE
    LET kn == get_key_and_name_for_test(s, schema_file, node.unique_id)
        key == kn[1]
        name == kn[2]
        patch == get_schema_element(Get(dict_from_yaml(File(s, schema_file)), key, <<>>), name)
    IN  IF key = None \/ name = None \/ patch = NoneElem THEN s
        ELSE IF key \in {"models", "seeds", "snapshots"} THEN
            LET s1 == self(self(s, "delete_schema_mssa_links", <<schema_file, key, patch>>), "merge_patch",
                           <<schema_file, key, patch, FALSE>>)
            IN  IF s1.exc = NoExc /\ InList(unique_id, File(s1, schema_file).node_patches)
                THEN [s1 EXCEPT !.heap[schema_file].node_patches = ListRemove(@, unique_id)]
                ELSE s1
        ELSE IF key = "sources" THEN
            LET s1 == IF patch.overrides # None
                      THEN self(s, "remove_source_override_target", <<patch>>) ELSE s
            IN  self(self(s1, "delete_schema_source", <<schema_file, patch>>), "merge_patch",
                     <<schema_file, "sources", patch, FALSE>>)
        ELSE s

\* lines 552-595
schedule_macro_nodes_for_parsing(s, unique_ids) ==
    IF unique_ids = <<>> \/ s.exc # NoExc THEN s
    ELSE
    LET unique_id == Head(unique_ids)
        s1 == IF Has(s.nodes, unique_id) THEN
                  LET node == s.nodes[unique_id]
                  IN  IF node.resource_type = "test" /\ node.test_node_type = "generic"
                      THEN self(s, "reschedule_generic_test", <<unique_id, node>>)
                      ELSE self(s, "reschedule_file", <<node.file_id, FALSE>>)
              ELSE IF Has(s.macros, unique_id) THEN
                  self(s, "reschedule_file", <<s.macros[unique_id].file_id, TRUE>>)
              ELSE s
    IN  schedule_macro_nodes_for_parsing(s1, Tail(unique_ids))

---------------------------------------------------------------------------
(* Deleting what a schema file element created.                            *)

RECURSIVE yaml_snapshot_each(_, _, _, _)
\* lines 890-898
yaml_snapshot_each(s, schema_file, snapshot_name, snapshots) ==
    IF snapshots = <<>> \/ s.exc # NoExc THEN s
    ELSE
    LET unique_id == Head(snapshots)
        s1 == IF Has(s.nodes, unique_id) THEN
                  IF s.nodes[unique_id].name = snapshot_name
                  THEN [s EXCEPT !.nodes = Pop(@, unique_id),
                                 !.heap[schema_file].snapshots = ListRemove(@, unique_id)]
                  ELSE s
              ELSE IF Has(s.disabled, unique_id) THEN
                  LET s2 == self(s, "delete_disabled",
                                 <<unique_id, File(s, schema_file).file_id>>)
                  IN  IF s2.exc = NoExc
                      THEN [s2 EXCEPT !.heap[schema_file].snapshots = ListRemove(@, unique_id)]
                      ELSE s2
              ELSE s
    IN  yaml_snapshot_each(s1, schema_file, snapshot_name, Tail(snapshots))

\* lines 887-898
delete_yaml_snapshot(s, schema_file, snapshot_dict) ==
    yaml_snapshot_each(s, schema_file, snapshot_dict.name,
                            File(s, schema_file).snapshots)

\* lines 906-913
schema_source_each(s, schema_file, source_name, sources) ==
    IF sources = <<>> \/ s.exc # NoExc THEN s
    ELSE
    LET unique_id == Head(sources)
        s1 == IF Has(s.sources, unique_id) /\ s.sources[unique_id].source_name = source_name
              THEN IF ~InList(unique_id, File(s, schema_file).sources)
                   THEN Raise([s EXCEPT !.sources = Pop(@, unique_id)], "ValueError")
                   ELSE self([s EXCEPT !.sources = Pop(@, unique_id), !.heap[schema_file].sources = ListRemove(@, unique_id)], "schedule_referencing_nodes_for_parsing",
                             <<unique_id>>)
              ELSE s
    IN  schema_source_each(s1, schema_file, source_name, Tail(sources))

\* lines 900-915
delete_schema_source(s, schema_file, source_dict) ==
    self(schema_source_each(s, schema_file, source_dict.name, File(s, schema_file).sources), "remove_tests",
              <<schema_file, "sources", source_dict.name>>)

\* lines 917-932
delete_schema_macro_patch(s, schema_file, macro) ==
    IF macro = NoneElem THEN Raise(s, "TypeError")
    ELSE
    LET macro_patches == File(s, schema_file).macro_patches
        macro_unique_id == Get(macro_patches, macro.name, None)
        s1 == [s EXCEPT !.heap[schema_file].macro_patches = Pop(@, macro.name)]
    IN  IF macro_unique_id # None /\ Has(s1.macros, macro_unique_id) THEN
            LET macro_file_id == s1.macros[macro_unique_id].file_id
                s2 == [s1 EXCEPT !.macros = Pop(@, macro_unique_id)]
            IN  IF Has(new_files, macro_file_id) THEN
                    IF ~Has(s2.files, macro_file_id) THEN Raise(s2, "KeyError")
                    ELSE
                    LET s3 == adopt_new_file(
                                  self(s2, "delete_macro_file",
                                       <<s2.files[macro_file_id], FALSE>>),
                                  macro_file_id)
                    IN  IF s3.exc = NoExc THEN self(s3, "add_to_pp_files",
                                            <<s3.files[macro_file_id]>>) ELSE s3
                ELSE s2
        ELSE s1

\* lines 934-949
delete_schema_data_test_patch(s, schema_file, data_test) ==
    LET node_patches == File(s, schema_file).node_patches
        hits == {i \in DOMAIN node_patches :
                    node_patches[i][1] = "test" /\ node_patches[i][3] = data_test.name}
        data_test_unique_id ==
            IF hits = {} THEN <<None>>
            ELSE node_patches[CHOOSE i \in hits : \A j \in hits : i <= j]
    IN  IF hits # {} /\ Has(s.nodes, data_test_unique_id) THEN
            LET file_id == s.nodes[data_test_unique_id].file_id
                s1 == [s EXCEPT !.nodes = Pop(@, data_test_unique_id)]
            IN  IF Has(new_files, file_id)
                THEN LET s2 == adopt_new_file(s1, file_id)
                     IN  IF s2.exc = NoExc THEN self(s2, "add_to_pp_files", <<s2.files[file_id]>>) ELSE s2
                ELSE s1
        ELSE s

RECURSIVE schema_exposure_each(_, _, _, _)
\* lines 956-963
schema_exposure_each(s, schema_file, exposure_name, exposures) ==
    IF exposures = <<>> \/ s.exc # NoExc THEN s
    ELSE
    LET unique_id == Head(exposures)
        s1 == IF Has(s.exposures, unique_id) THEN
                  IF s.exposures[unique_id].name = exposure_name
                  THEN [s EXCEPT !.exposures = Pop(@, unique_id),
                                 !.heap[schema_file].exposures = ListRemove(@, unique_id)]
                  ELSE s
              ELSE IF Has(s.disabled, unique_id)
              THEN self(s, "delete_disabled", <<unique_id, File(s, schema_file).file_id>>)
              ELSE s
    IN  schema_exposure_each(s1, schema_file, exposure_name, Tail(exposures))

\* lines 953-963
delete_schema_exposure(s, schema_file, exposure_dict) ==
    schema_exposure_each(s, schema_file, exposure_dict.name,
                              File(s, schema_file).exposures)

\* lines 969-975
schema_group_each(s, schema_file, group_name, groups) ==
    IF groups = <<>> \/ s.exc # NoExc THEN s
    ELSE
    LET unique_id == Head(groups)
        s1 == IF Has(s.groups, unique_id) /\ s.groups[unique_id].name = group_name THEN
                  IF ~Has(saved_manifest.group_map, group_name) THEN Raise(s, "KeyError")
                  ELSE
                  LET s2 == self(s, "schedule_nodes_for_parsing",
                                 <<saved_manifest.group_map[group_name]>>)
                  IN  IF s2.exc # NoExc THEN s2
                      ELSE IF ~Has(s2.groups, unique_id) THEN Raise(s2, KeyErrorUniqueId)
                      ELSE IF ~InList(unique_id, File(s2, schema_file).groups)
                      THEN Raise([s2 EXCEPT !.groups = Pop(@, unique_id)], "ValueError")
                      ELSE popped(s2, [s2 EXCEPT !.groups = Pop(@, unique_id),
                                                 !.heap[schema_file].groups =
                                                     ListRemove(@, unique_id)],
                                  "groups", unique_id, saved_manifest.group_map[group_name])
              ELSE s
    IN  schema_group_each(s1, schema_file, group_name, Tail(groups))

\* lines 966-975
delete_schema_group(s, schema_file, group_dict) ==
    schema_group_each(s, schema_file, group_dict.name, File(s, schema_file).groups)

\* fault for C32: the entry is popped and its dependents are not scheduled
pop_referenced_unscheduled(s, schema_file, table, unique_id, listed) ==
    IF ~Has(s[table], unique_id) THEN Raise(s, KeyErrorUniqueId)
    ELSE
    LET s2 == [s EXCEPT ![table] = Pop(@, unique_id)]
        dependents == Get(saved_manifest.child_map, unique_id, <<>>)
    IN  IF ~listed THEN popped(s, s2, table, unique_id, dependents)
        ELSE popped(s, [s2 EXCEPT !.heap[schema_file][table] = ListRemove(@, unique_id)],
                    table, unique_id, dependents)

\* lines 985-989 (and 1000-1003, 1015-1019): the children are scheduled, then
\* the entry is popped from its table and, when listed, from the schema file
pop_referenced(s, schema_file, table, unique_id, listed) ==
    LET s1 == IF Has(saved_manifest.child_map, unique_id)
              THEN self(s, "schedule_nodes_for_parsing",
                        <<saved_manifest.child_map[unique_id]>>)
              ELSE s
    IN  IF s1.exc # NoExc THEN s1
        ELSE IF ~Has(s1[table], unique_id) THEN Raise(s1, KeyErrorUniqueId)
        ELSE
        LET s2 == [s1 EXCEPT ![table] = Pop(@, unique_id)]
            dependents == Get(saved_manifest.child_map, unique_id, <<>>)
        IN  IF ~listed THEN popped(s1, s2, table, unique_id, dependents)
            ELSE IF ~InList(unique_id, File(s2, schema_file)[table])
            THEN Raise(s2, "ValueError")
            ELSE popped(s1, [s2 EXCEPT !.heap[schema_file][table] = ListRemove(@, unique_id)],
                        table, unique_id, dependents)

\* lines 981-991
schema_metric_each(s, schema_file, metric_name, metrics) ==
    IF metrics = <<>> \/ s.exc # NoExc THEN s
    ELSE
    LET unique_id == Head(metrics)
        s1 == IF Has(s.metrics, unique_id) THEN
                  IF s.metrics[unique_id].name = metric_name
                  THEN self(s, "pop_referenced",
                            <<schema_file, "metrics", unique_id, TRUE>>)
                  ELSE s
              ELSE IF Has(s.disabled, unique_id)
              THEN self(s, "delete_disabled", <<unique_id, File(s, schema_file).file_id>>)
              ELSE s
    IN  schema_metric_each(s1, schema_file, metric_name, Tail(metrics))

\* lines 978-991
delete_schema_metric(s, schema_file, metric_dict) ==
    schema_metric_each(s, schema_file, metric_dict.name, File(s, schema_file).metrics)

\* lines 996-1005
schema_saved_query_each(s, schema_file, saved_query_name, saved_queries) ==
    IF saved_queries = <<>> \/ s.exc # NoExc THEN s
    ELSE
    LET unique_id == Head(saved_queries)
        s1 == IF Has(s.saved_queries, unique_id) THEN
                  IF s.saved_queries[unique_id].name = saved_query_name
                  THEN self(s, "pop_referenced",
                            <<schema_file, "saved_queries", unique_id, FALSE>>)
                  ELSE s
              ELSE IF Has(s.disabled, unique_id)
              THEN self(s, "delete_disabled", <<unique_id, File(s, schema_file).file_id>>)
              ELSE s
    IN  schema_saved_query_each(s1, schema_file, saved_query_name, Tail(saved_queries))

\* lines 993-1005
delete_schema_saved_query(s, schema_file, saved_query_dict) ==
    schema_saved_query_each(s, schema_file, saved_query_dict.name,
                                 File(s, schema_file).saved_queries)

\* lines 1010-1021
schema_semantic_model_each(s, schema_file, semantic_model_name, semantic_models) ==
    IF semantic_models = <<>> \/ s.exc # NoExc THEN s
    ELSE
    LET unique_id == Head(semantic_models)
        s1 == IF Has(s.semantic_models, unique_id) THEN
                  IF s.semantic_models[unique_id].name = semantic_model_name
                  THEN self(s, "pop_referenced",
                            <<schema_file, "semantic_models", unique_id, TRUE>>)
                  ELSE s
              ELSE IF Has(s.disabled, unique_id)
              THEN self(s, "delete_disabled", <<unique_id, File(s, schema_file).file_id>>)
              ELSE s
    IN  schema_semantic_model_each(s1, schema_file, semantic_model_name,
                                   Tail(semantic_models))

\* SchemaSourceFile.fix_metrics_from_measures: the old generated_metrics list
\* is regrouped by the semantic model whose measure names the metric; the
\* YAML elements here carry no measures, so nothing is regrouped
fix_metrics_from_measures(s, schema_file) ==
    [s EXCEPT !.heap[schema_file].generated_metrics = <<>>]

RECURSIVE metrics_from_measures_each_enabled(_, _, _)
\* fault for C33: the disabled generated metrics keep their shadows
metrics_from_measures_each_enabled(s, schema_file, unique_ids) ==
    IF unique_ids = <<>> \/ s.exc # NoExc THEN s
    ELSE
    LET unique_id == Head(unique_ids)
        s1 == IF Has(s.metrics, unique_id) THEN [s EXCEPT !.metrics = Pop(@, unique_id)]
              ELSE s
    IN  metrics_from_measures_each_enabled(s1, schema_file, Tail(unique_ids))

RECURSIVE metrics_from_measures_each(_, _, _)
\* lines 1027-1031
metrics_from_measures_each(s, schema_file, unique_ids) ==
    IF unique_ids = <<>> \/ s.exc # NoExc THEN s
    ELSE
    LET unique_id == Head(unique_ids)
        s1 == IF Has(s.metrics, unique_id) THEN [s EXCEPT !.metrics = Pop(@, unique_id)]
              ELSE IF Has(s.disabled, unique_id)
              THEN self(s, "delete_disabled", <<unique_id, File(s, schema_file).file_id>>)
              ELSE s
    IN  metrics_from_measures_each(s1, schema_file, Tail(unique_ids))

\* lines 1007-1032
delete_schema_semantic_model(s, schema_file, semantic_model_dict) ==
    LET semantic_model_name == semantic_model_dict.name
        s1 == schema_semantic_model_each(s, schema_file, semantic_model_name,
                                         File(s, schema_file).semantic_models)
        s2 == IF s1.exc = NoExc /\ File(s1, schema_file).generated_metrics # <<>>
              THEN self(s1, "fix_metrics_from_measures", <<schema_file>>) ELSE s1
        s4 == IF s2.exc = NoExc
                 /\ Has(File(s2, schema_file).metrics_from_measures, semantic_model_name)
              THEN LET s3 == metrics_from_measures_each(
                                 s2, schema_file,
                                 File(s2, schema_file).metrics_from_measures[semantic_model_name])
                   IN  IF s3.exc = NoExc
                       THEN [s3 EXCEPT !.heap[schema_file].metrics_from_measures =
                                           Pop(@, semantic_model_name)]
                       ELSE s3
              ELSE s2
    IN  CASE s1.exc # NoExc -> s1
          [] OTHER ->
              observe(s4, [call |-> "delete_schema_semantic_model",
                           file_id |-> File(s, schema_file).file_id,
                           name |-> semantic_model_name,
                           before |-> [metrics |-> s.metrics, disabled |-> s.disabled,
                                       metrics_from_measures |->
                                           File(s, schema_file).metrics_from_measures],
                           after |-> [metrics |-> s4.metrics, disabled |-> s4.disabled,
                                      metrics_from_measures |->
                                          File(s4, schema_file).metrics_from_measures]])

RECURSIVE schema_unit_test_each(_, _, _, _)
\* lines 1037-1042
schema_unit_test_each(s, schema_file, unit_test_name, unit_tests) ==
    IF unit_tests = <<>> \/ s.exc # NoExc THEN s
    ELSE
    LET unique_id == Head(unit_tests)
        s1 == IF Has(s.unit_tests, unique_id) /\ s.unit_tests[unique_id].name = unit_test_name
              THEN [s EXCEPT !.unit_tests = Pop(@, unique_id),
                             !.heap[schema_file].unit_tests = ListRemove(@, unique_id)]
              ELSE s
    IN  schema_unit_test_each(s1, schema_file, unit_test_name, Tail(unit_tests))

\* lines 1034-1043
delete_schema_unit_test(s, schema_file, unit_test_dict) ==
    schema_unit_test_each(s, schema_file, unit_test_dict.name,
                               File(s, schema_file).unit_tests)

\* lines 1051-1059: the reference of the file, or NoneRef
get_schema_file_for_source(s, package_name, source_name) ==
    LET hits == {u \in DOMAIN s.sources :
                    /\ s.sources[u].package_name = package_name
                    /\ s.sources[u].source_name = source_name}
    IN  IF hits = {} THEN NoneRef
        ELSE LET file_id == s.sources[CHOOSE u \in hits : TRUE].file_id
             IN  IF Has(s.files, file_id) THEN s.files[file_id] ELSE NoneRef

\* lines 1061-1074 (get_source_override_file_and_dict inlined at its one call)
remove_source_override_target(s, source_dict) ==
    LET orig_file == get_schema_file_for_source(s, source_dict.overrides, source_dict.name)
    IN  IF orig_file = NoneRef THEN Raise(s, AttributeErrorNone)
        ELSE IF ~IsSchemaSourceFile(File(s, orig_file)) THEN Raise(s, "AttributeError")
        ELSE IF ~Has(dict_from_yaml(File(s, orig_file)), "sources") THEN Raise(s, "KeyError")
        ELSE
        LET orig_source == get_schema_element(dict_from_yaml(File(s, orig_file)).sources,
                                              source_dict.name)
        IN  IF orig_source = NoneElem THEN s
            ELSE self(self(self(s, "delete_schema_source", <<orig_file, orig_source>>), "merge_patch",
                           <<orig_file, "sources", orig_source, FALSE>>), "add_to_pp_files",
                      <<orig_file>>)

---------------------------------------------------------------------------
(* The handlers get_parsing_files calls, one per file of the diff.         *)

\* history: the section walk of lines 666-758 has deleted what the manifest
\* held for the element and, with merge, has merged the element into pp_dict
walked(s, schema_file, dict_key, elem, merge) ==
    observe(s, [call |-> "section_walk", file_id |-> File(s, schema_file).file_id,
                key |-> dict_key, name |-> elem.name, merge |-> merge])

RECURSIVE mssa_elements_each_keeping_links(_, _, _, _, _)
\* fault for C28: the patched nodes and the tests of the element are kept
mssa_elements_each_keeping_links(s, schema_file, dict_key, elems, merge) ==
    IF elems = <<>> \/ s.exc # NoExc THEN s
    ELSE
    LET elem == Head(elems)
        s1 == IF dict_key = "snapshots" /\ elem.relation
              THEN self(s, "delete_yaml_snapshot", <<schema_file, elem>>) ELSE s
        s3 == IF merge THEN self(s1, "merge_patch", <<schema_file, dict_key, elem, TRUE>>) ELSE s1
    IN  mssa_elements_each_keeping_links(walked(s3, schema_file, dict_key, elem, merge),
                                         schema_file, dict_key, Tail(elems), merge)

RECURSIVE mssa_elements_each(_, _, _, _, _)
\* lines 668-692: changed, env-affected (merge) and deleted (no merge) elements
mssa_elements_each(s, schema_file, dict_key, elems, merge) ==
    IF elems = <<>> \/ s.exc # NoExc THEN s
    ELSE
    LET elem == Head(elems)
        s1 == IF dict_key = "snapshots" /\ elem.relation
              THEN self(s, "delete_yaml_snapshot", <<schema_file, elem>>) ELSE s
        s2 == self(s1, "delete_schema_mssa_links", <<schema_file, dict_key, elem>>)
        s3 == IF merge THEN self(s2, "merge_patch", <<schema_file, dict_key, elem, TRUE>>) ELSE s2
    IN  mssa_elements_each(walked(s3, schema_file, dict_key, elem, merge),
                           schema_file, dict_key, Tail(elems), merge)

RECURSIVE added_elements_each(_, _, _, _, _)
\* lines 679-681, 709-713, 746-748
added_elements_each(s, schema_file, dict_key, elems, is_source) ==
    IF elems = <<>> \/ s.exc # NoExc THEN s
    ELSE
    LET elem == Head(elems)
        s1 == IF is_source /\ elem.overrides # None
              THEN self(s, "remove_source_override_target", <<elem>>) ELSE s
    IN  added_elements_each(self(s1, "merge_patch", <<schema_file, dict_key, elem, TRUE>>),
                            schema_file, dict_key, Tail(elems), is_source)

RECURSIVE source_elements_each(_, _, _, _)
\* lines 697-708, 714-723
source_elements_each(s, schema_file, sources, merge) ==
    IF sources = <<>> \/ s.exc # NoExc THEN s
    ELSE
    LET source == Head(sources)
        s1 == IF source.overrides # None
              THEN self(s, "remove_source_override_target", <<source>>) ELSE s
        s2 == self(s1, "delete_schema_source", <<schema_file, source>>)
        s3 == IF merge THEN self(s2, "merge_patch",
                                 <<schema_file, "sources", source, TRUE>>) ELSE s2
    IN  source_elements_each(walked(s3, schema_file, "sources", source, merge),
                             schema_file, Tail(sources), merge)

RECURSIVE other_elements_each(_, _, _, _, _)
\* lines 740-745, 749-758
other_elements_each(s, schema_file, dict_key, elements, merge) ==
    IF elements = <<>> \/ s.exc # NoExc THEN s
    ELSE
    LET element == Head(elements)
        s1 == self(s, delete_schema[dict_key], <<schema_file, element>>)
        s2 == IF merge THEN self(s1, "merge_patch",
                                 <<schema_file, dict_key, element, TRUE>>) ELSE s1
    IN  CASE s1.exc # NoExc -> walked(s1, schema_file, dict_key, element, merge)
          [] OTHER -> other_elements_each(walked(s2, schema_file, dict_key, element, merge),
                                          schema_file, dict_key, Tail(elements), merge)

\* fault for C30: the env-affected elements are not replayed
env_var_elements_skipped(env_var_changes, dict_key, new_yaml_dict, diff) ==
    [err |-> FALSE, elems |-> <<>>]

\* lines 683-692: the env-affected elements still to handle, or KeyError
\* when the diff carries no changed_or_deleted_names
env_var_elements(env_var_changes, dict_key, new_yaml_dict, diff) ==
    IF Has(env_var_changes, dict_key) /\ Has(new_yaml_dict, dict_key)
    THEN IF ~Has(diff, "changed_or_deleted_names") /\ env_var_changes[dict_key] # <<>>
         THEN [err |-> TRUE, elems |-> <<>>]
         ELSE
         LET names == SelectSeq(env_var_changes[dict_key],
                          LAMBDA name :
                              /\ ~InList(name, diff.changed_or_deleted_names)
                              /\ get_schema_element(new_yaml_dict[dict_key], name) # NoneElem)
         IN  [err |-> FALSE,
              elems |-> [i \in DOMAIN names |->
                            get_schema_element(new_yaml_dict[dict_key], names[i])]]
    ELSE [err |-> FALSE, elems |-> <<>>]

\* one section of lines 666-692, 695-723 or 736-758
handle_section(s, schema_file, saved_yaml_dict, new_yaml_dict, env_var_changes, dict_key) ==
    LET diff == get_diff_for(dict_key, saved_yaml_dict, new_yaml_dict)
        env == env_var_elements(env_var_changes, dict_key, new_yaml_dict, diff)
        mssa == dict_key \in {"models", "seeds", "snapshots", "analyses"}
        each(st, elems, merge) ==
            IF mssa THEN mssa_elements_each(st, schema_file, dict_key, elems, merge)
            ELSE IF dict_key = "sources"
            THEN source_elements_each(st, schema_file, elems, merge)
            ELSE other_elements_each(st, schema_file, dict_key, elems, merge)
        s1 == each(s, diff.changed, TRUE)
        s2 == each(s1, diff.deleted, FALSE)
        s3 == added_elements_each(s2, schema_file, dict_key, diff.added,
                                  dict_key = "sources")
    IN  CASE s1.exc # NoExc -> s1
          [] s2.exc # NoExc -> s2
          [] s3.exc # NoExc -> s3
          [] env.err -> Raise(s3, "KeyError")
          [] OTHER -> each(s3, env.elems, TRUE)

\* the order in which lines 666-734 visit the sections
schema_sections ==
    <<"models", "seeds", "snapshots", "analyses", "sources", "macros", "exposures",
      "metrics", "groups", "semantic_models", "unit_tests", "saved_queries",
      "data_tests">>

\* lines 654-734: the sections one after the other; a section that raises
\* ends the walk
handle_schema_file_changes(s, schema_file, saved_yaml_dict, new_yaml_dict) ==
    LET env_var_changes ==
            Get(env_vars_changed_schema_files, File(s, schema_file).file_id, EmptyDict)
        section(st, i) ==
            self(st, "handle_section",
                 <<schema_file, saved_yaml_dict, new_yaml_dict, env_var_changes,
                   schema_sections[i]>>)
        s1 == section(s, 1)
        s2 == section(s1, 2)
        s3 == section(s2, 3)
        s4 == section(s3, 4)
        s5 == section(s4, 5)
        s6 == section(s5, 6)
        s7 == section(s6, 7)
        s8 == section(s7, 8)
        s9 == section(s8, 9)
        s10 == section(s9, 10)
        s11 == section(s10, 11)
        s12 == section(s11, 12)
    IN  CASE s1.exc # NoExc -> s1
          [] s2.exc # NoExc -> s2
          [] s3.exc # NoExc -> s3
          [] s4.exc # NoExc -> s4
          [] s5.exc # NoExc -> s5
          [] s6.exc # NoExc -> s6
          [] s7.exc # NoExc -> s7
          [] s8.exc # NoExc -> s8
          [] s9.exc # NoExc -> s9
          [] s10.exc # NoExc -> s10
          [] s11.exc # NoExc -> s11
          [] s12.exc # NoExc -> s12
          [] OTHER -> section(s12, 13)

RECURSIVE added_sources_each(_, _)
\* lines 242-246
added_sources_each(s, sources) ==
    IF sources = <<>> \/ s.exc # NoExc THEN s
    ELSE added_sources_each(
             IF Head(sources).overrides # None
             THEN self(s, "remove_source_override_target", <<Head(sources)>>) ELSE s,
             Tail(sources))

\* lines 239-246
handle_added_schema_file(s, source_file) ==
    LET s1 == [s EXCEPT !.heap[source_file].pp_dict = dict_from_yaml(File(s, source_file))]
    IN  added_sources_each(s1, Get(File(s1, source_file).pp_dict, "sources", <<>>))

\* fault for C12: the added file is adopted but never put in the plan
add_to_saved_unplanned(s, file_id) ==
    LET s1 == deepcopy_new_file(s, file_id) IN
    IF s1.exc # NoExc THEN s1
    ELSE fire_event([s1 EXCEPT !.files = Put(@, file_id, s1.ret)],
                    PartialParsingFile("added", file_id))

\* lines 229-237
add_to_saved(s, file_id) ==
    LET s1 == deepcopy_new_file(s, file_id) IN
    IF s1.exc # NoExc THEN s1
    ELSE
    LET source_file == s1.ret
        s2 == IF File(s1, source_file).parse_file_type = Schema
              THEN self(s1, "handle_added_schema_file", <<source_file>>) ELSE s1
        s3 == IF s2.exc = NoExc THEN [s2 EXCEPT !.files = Put(@, file_id, source_file)] ELSE s2
    IN  fire_event(self(s3, "add_to_pp_files", <<source_file>>), PartialParsingFile("added", file_id))

\* lines 626-642
change_schema_file(s, file_id) ==
    IF ~Has(s.files, file_id) THEN Raise(s, "KeyError")
    ELSE
    LET saved_schema_file == s.files[file_id]
        s1 == deepcopy_new_file(s, file_id)
    IN  IF s1.exc # NoExc THEN s1
        ELSE
        LET new_schema_file == s1.ret
            saved_yaml_dict == dict_from_yaml(File(s1, saved_schema_file))
            new_yaml_dict == dict_from_yaml(File(s1, new_schema_file))
            s2 == [s1 EXCEPT !.heap[saved_schema_file].pp_dict = EmptyDict]
            s3 == self(s2, "handle_schema_file_changes",
                       <<saved_schema_file, saved_yaml_dict, new_yaml_dict>>)
        IN  IF s3.exc # NoExc THEN s3
            ELSE fire_event(
                     self([s3 EXCEPT !.heap[saved_schema_file].contents = File(s3, new_schema_file).contents, !.heap[saved_schema_file].checksum = File(s3, new_schema_file).checksum, !.heap[saved_schema_file].dfy = File(s3, new_schema_file).dfy], "add_to_pp_files",
                          <<saved_schema_file>>),
                     PartialParsingFile("updated", file_id))

\* lines 645-650
delete_schema_file(s, file_id) ==
    IF ~Has(s.files, file_id) THEN Raise(s, "KeyError")
    ELSE
    LET saved_schema_file == s.files[file_id]
        s1 == self(s, "handle_schema_file_changes",
                   <<saved_schema_file, dict_from_yaml(File(s, saved_schema_file)), EmptyDict>>)
    IN  IF s1.exc # NoExc THEN s1
        ELSE IF ~Has(s1.files, file_id) THEN Raise(s1, "KeyError")
        ELSE [s1 EXCEPT !.files = Pop(@, file_id)]

RECURSIVE doc_each(_, _, _)
\* lines 600-602
doc_each(s, source_file, docs) ==
    IF docs = <<>> \/ s.exc # NoExc THEN s
    ELSE IF ~Has(s.docs, Head(docs)) THEN Raise(s, KeyErrorUniqueId)
    ELSE doc_each([s EXCEPT !.docs = Pop(@, Head(docs)),
                            !.heap[source_file].docs = ListRemove(@, Head(docs))],
                  source_file, Tail(docs))

\* delete_doc_node without the scheduling of the file's nodes list
delete_doc_node_unscheduled(s, source_file) ==
    LET s2 == doc_each(s, source_file, File(s, source_file).docs)
    IN  IF s2.exc # NoExc THEN s2
        ELSE IF ~Has(s2.files, File(s2, source_file).file_id)
        THEN Raise([s2 EXCEPT !.heap[source_file].nodes = <<>>], "KeyError")
        ELSE [s2 EXCEPT !.heap[source_file].nodes = <<>>,
                        !.files = Pop(@, File(s2, source_file).file_id)]

\* lines 597-608
delete_doc_node(s, source_file) ==
    LET s1 == doc_each(s, source_file, File(s, source_file).docs)
        s2 == IF s1.exc = NoExc THEN self(s1, "schedule_nodes_for_parsing",
                                  <<File(s1, source_file).nodes>>)
              ELSE s1
    IN  IF s2.exc # NoExc THEN s2
        ELSE IF ~Has(s2.files, File(s2, source_file).file_id)
        THEN Raise([s2 EXCEPT !.heap[source_file].nodes = <<>>], "KeyError")
        ELSE [s2 EXCEPT !.heap[source_file].nodes = <<>>,
                        !.files = Pop(@, File(s2, source_file).file_id)]

RECURSIVE fixture_unit_test_each(_, _, _)
\* lines 615-621
fixture_unit_test_each(s, source_file, unit_tests) ==
    IF unit_tests = <<>> \/ s.exc # NoExc THEN s
    ELSE
    LET unique_id == Head(unit_tests) IN
    IF ~Has(s.unit_tests, unique_id) THEN Raise(s, KeyErrorUniqueId)
    ELSE
    LET unit_test == s.unit_tests[unique_id]
        s1 == self([s EXCEPT !.unit_tests = Pop(@, unique_id)], "schedule_for_parsing",
                   <<"unit_tests", unit_test, unit_test.name>>)
    IN  fixture_unit_test_each(
            IF s1.exc = NoExc THEN [s1 EXCEPT !.heap[source_file].unit_tests =
                                          ListRemove(@, unique_id)]
            ELSE s1,
            source_file, Tail(unit_tests))

\* lines 610-622
delete_fixture_node(s, source_file) ==
    IF ~Has(s.fixtures, File(s, source_file).fixture) THEN Raise(s, KeyErrorUniqueId)
    ELSE
    LET s1 == fixture_unit_test_each(
                  [s EXCEPT !.fixtures = Pop(@, File(s, source_file).fixture)],
                  source_file, File(s, source_file).unit_tests)
    IN  IF s1.exc # NoExc THEN s1
        ELSE IF ~Has(s1.files, File(s1, source_file).file_id) THEN Raise(s1, "KeyError")
        ELSE [s1 EXCEPT !.files = Pop(@, File(s1, source_file).file_id)]

\* lines 265-289
delete_from_saved(s, file_id) ==
    IF ~Has(s.files, file_id) THEN Raise(s, "KeyError")
    ELSE
    LET saved_source_file == s.files[file_id]
        parse_file_type == File(s, saved_source_file).parse_file_type
        s1 == IF parse_file_type \in mssat_files
              THEN LET r == self(s, "remove_mssat_file", <<saved_source_file>>)
                   IN  IF r.exc # NoExc THEN r
                       ELSE IF ~Has(r.files, file_id) THEN Raise(r, "KeyError")
                       ELSE [r EXCEPT !.files = Pop(@, file_id)]
              ELSE s
        s2 == IF parse_file_type \in mg_files
              THEN self(s1, "delete_macro_file", <<saved_source_file, TRUE>>) ELSE s1
        s3 == IF parse_file_type = Documentation
              THEN self(s2, "delete_doc_node", <<saved_source_file>>) ELSE s2
        s4 == IF parse_file_type = Fixture
              THEN self(s3, "delete_fixture_node", <<saved_source_file>>) ELSE s3
    IN  fire_event(s4, PartialParsingFile("deleted", file_id))

RECURSIVE update_mssat_each(_, _, _)
\* lines 326-327
update_mssat_each(s, new_source_file, unique_ids) ==
    IF unique_ids = <<>> \/ s.exc # NoExc THEN s
    ELSE update_mssat_each(self(s, "remove_node_in_saved",
                                <<new_source_file, Head(unique_ids)>>),
                           new_source_file, Tail(unique_ids))

\* self.saved_files[file_id] = deepcopy(new_source_file);
\* self.add_to_pp_files(new_source_file)
replace_in_saved(s, new_source_file) ==
    self([s EXCEPT !.heap = Put(@, s.next, File(s, new_source_file)), !.next = @ + 1, !.files = Put(@, File(s, new_source_file).file_id, s.next)], "add_to_pp_files",
              <<new_source_file>>)

\* fault for C11: the nodes of the old file are left in the manifest
update_mssat_in_saved_keeping_nodes(s, new_source_file, old_source_file) ==
    IF already_scheduled_for_parsing(s, old_source_file) THEN s
    ELSE self(s, "replace_in_saved", <<new_source_file>>)

\* lines 312-327
update_mssat_in_saved(s, new_source_file, old_source_file) ==
    IF already_scheduled_for_parsing(s, old_source_file) THEN s
    ELSE update_mssat_each(self(s, "replace_in_saved", <<new_source_file>>), new_source_file,
                           File(s, old_source_file).nodes)

\* fault for C25: the macros of the old file are left in the manifest
update_macro_in_saved_keeping_macros(s, new_source_file, old_source_file) ==
    IF already_scheduled_for_parsing(s, old_source_file) THEN s
    ELSE self(s, "replace_in_saved", <<new_source_file>>)

\* lines 377-383
update_macro_in_saved(s, new_source_file, old_source_file) ==
    IF already_scheduled_for_parsing(s, old_source_file) THEN s
    ELSE self(self(s, "handle_macro_file_links", <<old_source_file, TRUE>>), "replace_in_saved",
              <<new_source_file>>)

\* lines 385-390
update_doc_in_saved(s, new_source_file, old_source_file) ==
    IF already_scheduled_for_parsing(s, old_source_file) THEN s
    ELSE self(self(s, "delete_doc_node", <<old_source_file>>), "replace_in_saved", <<new_source_file>>)

\* lines 392-397
update_fixture_in_saved(s, new_source_file, old_source_file) ==
    IF already_scheduled_for_parsing(s, old_source_file) THEN s
    ELSE self(self(s, "delete_fixture_node", <<old_source_file>>), "replace_in_saved",
              <<new_source_file>>)

\* lines 292-306
update_in_saved(s, file_id) ==
    LET s1 == deepcopy_new_file(s, file_id) IN
    IF s1.exc # NoExc THEN s1
    ELSE IF ~Has(s1.files, file_id) THEN Raise(s1, "KeyError")
    ELSE
    LET new_source_file == s1.ret
        old_source_file == s1.files[file_id]
        parse_file_type == File(s1, new_source_file).parse_file_type
        s2 == IF parse_file_type \in mssat_files
              THEN self(s1, "update_mssat_in_saved", <<new_source_file, old_source_file>>)
              ELSE IF parse_file_type \in mg_files
              THEN self(s1, "update_macro_in_saved", <<new_source_file, old_source_file>>)
              ELSE IF parse_file_type = Documentation
              THEN self(s1, "update_doc_in_saved", <<new_source_file, old_source_file>>)
              ELSE IF parse_file_type = Fixture
              THEN self(s1, "update_fixture_in_saved", <<new_source_file, old_source_file>>)
              ELSE Raise(s1, "Exception")
    IN  observe(fire_event(s2, PartialParsingFile("updated", file_id)),
                [call |-> "update_in_saved", file_id |-> file_id,
                 scheduled |-> already_scheduled_for_parsing(s1, old_source_file)])

\* schedule_nodes_for_parsing(unique_ids) is called while the same call,
\* entered in the same state, is in progress: the calls repeat until the
\* interpreter raises RecursionError
reentered(s, unique_ids) ==
    \E i \in DOMAIN s.entered :
        s.entered[i] = <<unique_ids, [s EXCEPT !.entered = <<>>]>>

\* the methods of PartialParsing, as self resolves them
self(s, method, args) ==
    CASE s.exc # NoExc -> s
      [] method = "add_to_pp_files" ->
             add_to_pp_files(s, args[1])
      [] method = "delete_from_env_vars" ->
             delete_from_env_vars(s, args[1], args[2], args[3])
      [] method = "merge_patch" ->
             merge_patch(s, args[1], args[2], args[3], args[4])
      [] method = "delete_disabled" ->
             delete_disabled(s, args[1], args[2])
      [] method = "remove_tests" ->
             remove_tests(s, args[1], args[2], args[3])
      [] method = "clear_disabled_patch_path" ->
             clear_disabled_patch_path(s, args[1])
      [] method = "reapply_node_patch" ->
             reapply_node_patch(s, args[1], args[2], args[3])
      [] method = "node_removed" ->
             node_removed(s, args[1], args[2])
      [] method = "remove_node_in_saved" ->
             remove_node_in_saved(s, args[1], args[2])
      [] method = "mssa_links_each_node" ->
             mssa_links_each_node(s, args[1], args[2])
      [] method = "mssa_links_each_id" ->
             mssa_links_each_id(s, args[1], args[2], args[3])
      [] method = "delete_schema_mssa_links" ->
             delete_schema_mssa_links(s, args[1], args[2], args[3])
      [] method = "schedule_referencing_nodes_for_parsing" ->
             schedule_referencing_nodes_for_parsing(s, args[1])
      [] method = "reschedule_file" ->
             reschedule_file(s, args[1], args[2])
      [] method = "schedule_nodes_for_parsing" /\ reentered(s, args[1]) ->
             Raise(s, "RecursionError")
      [] method = "schedule_nodes_for_parsing" /\ ~reentered(s, args[1]) ->
             schedule_nodes_for_parsing(
                 [s EXCEPT !.entered = <<<<args[1], [s EXCEPT !.entered = <<>>]>>>> \o @],
                 args[1])
      [] method = "schedule_for_parsing" ->
             schedule_for_parsing(s, args[1], args[2], args[3])
      [] method = "remove_mssat_file" ->
             remove_mssat_file(s, args[1])
      [] method = "check_for_special_deleted_macros" ->
             check_for_special_deleted_macros(s, args[1])
      [] method = "drop_macro_id" ->
             drop_macro_id(s, args[1], args[2])
      [] method = "handle_macro_file_links" ->
             handle_macro_file_links(s, args[1], args[2])
      [] method = "delete_macro_file" ->
             delete_macro_file(s, args[1], args[2])
      [] method = "reschedule_generic_test" ->
             reschedule_generic_test(s, args[1], args[2])
      [] method = "schedule_macro_nodes_for_parsing" ->
             schedule_macro_nodes_for_parsing(s, args[1])
      [] method = "delete_yaml_snapshot" ->
             delete_yaml_snapshot(s, args[1], args[2])
      [] method = "delete_schema_source" ->
             delete_schema_source(s, args[1], args[2])
      [] method = "delete_schema_macro_patch" ->
             delete_schema_macro_patch(s, args[1], args[2])
      [] method = "delete_schema_data_test_patch" ->
             delete_schema_data_test_patch(s, args[1], args[2])
      [] method = "delete_schema_exposure" ->
             delete_schema_exposure(s, args[1], args[2])
      [] method = "delete_schema_group" ->
             delete_schema_group(s, args[1], args[2])
      [] method = "pop_referenced" ->
             pop_referenced(s, args[1], args[2], args[3], args[4])
      [] method = "delete_schema_metric" ->
             delete_schema_metric(s, args[1], args[2])
      [] method = "delete_schema_saved_query" ->
             delete_schema_saved_query(s, args[1], args[2])
      [] method = "fix_metrics_from_measures" ->
             fix_metrics_from_measures(s, args[1])
      [] method = "delete_schema_semantic_model" ->
             delete_schema_semantic_model(s, args[1], args[2])
      [] method = "delete_schema_unit_test" ->
             delete_schema_unit_test(s, args[1], args[2])
      [] method = "remove_source_override_target" ->
             remove_source_override_target(s, args[1])
      [] method = "handle_section" ->
             handle_section(s, args[1], args[2], args[3], args[4], args[5])
      [] method = "handle_schema_file_changes" ->
             handle_schema_file_changes(s, args[1], args[2], args[3])
      [] method = "handle_added_schema_file" ->
             handle_added_schema_file(s, args[1])
      [] method = "add_to_saved" ->
             add_to_saved(s, args[1])
      [] method = "change_schema_file" ->
             change_schema_file(s, args[1])
      [] method = "delete_schema_file" ->
             delete_schema_file(s, args[1])
      [] method = "delete_doc_node" ->
             delete_doc_node(s, args[1])
      [] method = "delete_fixture_node" ->
             delete_fixture_node(s, args[1])
      [] method = "delete_from_saved" ->
             delete_from_saved(s, args[1])
      [] method = "replace_in_saved" ->
             replace_in_saved(s, args[1])
      [] method = "update_mssat_in_saved" ->
             update_mssat_in_saved(s, args[1], args[2])
      [] method = "update_macro_in_saved" ->
             update_macro_in_saved(s, args[1], args[2])
      [] method = "update_doc_in_saved" ->
             update_doc_in_saved(s, args[1], args[2])
      [] method = "update_fixture_in_saved" ->
             update_fixture_in_saved(s, args[1], args[2])
      [] method = "update_in_saved" ->
             update_in_saved(s, args[1])


---------------------------------------------------------------------------
(* The state machine: __init__, then get_parsing_files one file at a time. *)

manifest_tables ==
    {"nodes", "sources", "macros", "docs", "fixtures", "exposures", "metrics",
     "groups", "semantic_models", "saved_queries", "unit_tests", "disabled"}

\* the handler state made of a saved manifest, a plan, the flag and the events
EnterFrom(manifest, ppf, flag, fired) ==
    LET ids == InsertionOrder(DOMAIN manifest.files)
        new_ids == InsertionOrder(DOMAIN new_files)
        new == [f \in DOMAIN new_files |->
                   Len(ids) + (CHOOSE r \in 1..Len(new_ids) : new_ids[r] = f)]
    IN  [heap |-> [r \in 1..(Len(ids) + Len(new_ids)) |->
                      IF r <= Len(ids) THEN manifest.files[ids[r]]
                      ELSE new_files[new_ids[r - Len(ids)]]],
         next |-> Len(ids) + Len(new_ids) + 1,
         new |-> new,
         files |-> [f \in DOMAIN manifest.files |->
                       IF f \in aliased /\ Has(new, f) THEN new[f]
                       ELSE CHOOSE r \in 1..Len(ids) : ids[r] = f],
         nodes |-> manifest.nodes, sources |-> manifest.sources,
         macros |-> manifest.macros, docs |-> manifest.docs,
         fixtures |-> manifest.fixtures, exposures |-> manifest.exposures,
         metrics |-> manifest.metrics, groups |-> manifest.groups,
         semantic_models |-> manifest.semantic_models,
         saved_queries |-> manifest.saved_queries,
         unit_tests |-> manifest.unit_tests, disabled |-> manifest.disabled,
         ppf |-> ppf, flag |-> flag,
         exc |-> NoExc, events |-> fired, ret |-> NoneRef, observed |-> <<>>,
         entered |-> <<>>]

\* the handler state at the start of a handler call
Enter ==
    EnterFrom(saved_manifest, project_parser_files, deleted_special_override_macro, events)

\* the saved manifest a handler call leaves behind
Leave(s) ==
    [x \in DOMAIN saved_manifest |->
        IF x = "files" THEN [f \in DOMAIN s.files |-> s.heap[s.files[f]]]
        ELSE IF x \in manifest_tables THEN s[x]
        ELSE saved_manifest[x]]

\* fault for C9: the changed files are handled before the deleted ones
phases_changed_before_deleted ==
    <<"added", "changed_schema_files", "deleted_schema_files", "changed", "deleted">>

\* lines 171-193: the file_diff lists in the order get_parsing_files walks them
phases == <<"added", "changed_schema_files", "deleted_schema_files", "deleted", "changed">>

handler_of ==
    [added |-> "add_to_saved", changed_schema_files |-> "change_schema_file",
     deleted_schema_files |-> "delete_schema_file", deleted |-> "delete_from_saved",
     changed |-> "update_in_saved"]

\* the loops before the loop over file_diff[phase] have ended
reached(phase) ==
    \A i \in DOMAIN phases :
        (\E j \in DOMAIN phases : j > i /\ phases[j] = phase) => todo[phases[i]] = <<>>

no_files == [ph \in Range(phases) |-> <<>>]

\* self.new_files as a handler call leaves it
LeaveNew(s) == [f \in DOMAIN s.new |-> s.heap[s.new[f]]]

\* the file_ids under which saved_files holds the very object of new_files
Shared(s) == {f \in DOMAIN s.files : s.files[f] \in Range(s.new)}

\* the state before the constructor runs, for a saved manifest and the
\* differences of one of the scenarios
InitWith(manifest, scenarios) ==
    \E scn \in scenarios :
        /\ saved_manifest = manifest
        /\ manifest_given = manifest
        /\ manifest_built = manifest
        /\ new_files = NewFilesOf(manifest.files, scn)
        /\ os_environ = EnvironOf(scn)
        /\ file_diff = no_files @@ [unchanged |-> <<>>]
        /\ env_vars_changed_source_files = <<>>
        /\ env_vars_changed_schema_files = EmptyDict
        /\ macro_child_map = EmptyDict
        /\ disabled_by_file_id = {}
        /\ project_parser_files = EmptyDict
        /\ deleted_special_override_macro = FALSE
        /\ processing_file = None
        /\ events = <<>>
        /\ pc = "new"
        /\ todo = no_files
        /\ exc = NoExc
        /\ calls = <<>>
        /\ aliased = {}
        /\ observed = <<>>
        /\ gathered = <<>>
        /\ frames = <<>>

Init == InitWith(SavedManifest, {X \in Scenarios(MaxDiff) : OneEach(X)})

PartialParsingEnabled(diff) ==
    [event |-> "PartialParsingEnabled",
     deleted |-> Len(diff.deleted) + Len(diff.deleted_schema_files),
     added |-> Len(diff.added),
     changed |-> Len(diff.changed) + Len(diff.changed_schema_files)]

\* lines 71-87: PartialParsing(saved_manifest, new_files)
Construct ==
    /\ pc = "new"
    /\ LET env == build_env_vars_to_files(saved_manifest, os_environ)
       IN  \E source_file_ids \in Perms(env.source_files) :
           \E diff \in build_file_diff(saved_manifest.files, new_files,
                                       source_file_ids, env.schema_files) :
               /\ saved_manifest' = env.manifest
               /\ manifest_built' = env.manifest
               /\ env_vars_changed_source_files' = source_file_ids
               /\ env_vars_changed_schema_files' = env.schema_files
               /\ file_diff' = diff
               /\ todo' = [ph \in Range(phases) |-> diff[ph]]
               /\ events' = Append(events, PartialParsingEnabled(diff))
    /\ macro_child_map' =
           IF changed_or_deleted_macro_file(saved_manifest.files, new_files)
           THEN build_macro_child_map(saved_manifest) ELSE EmptyDict
    /\ disabled_by_file_id' = build_disabled_by_file_id(saved_manifest)
    /\ project_parser_files' = EmptyDict
    /\ processing_file' = None
    /\ deleted_special_override_macro' = FALSE
    /\ pc' = "ready"
    /\ UNCHANGED <<new_files, os_environ, exc, calls, manifest_given, aliased, observed,
                   gathered, frames>>

\* lines 172-173: nothing differs, the plan is empty
GetParsingFilesSkip ==
    /\ pc = "ready"
    /\ skip_parsing(file_diff)
    /\ pc' = "done"
    /\ UNCHANGED <<saved_manifest, new_files, os_environ, file_diff,
                   env_vars_changed_source_files, env_vars_changed_schema_files,
                   macro_child_map, disabled_by_file_id, project_parser_files,
                   deleted_special_override_macro, processing_file, events, todo,
                   exc, calls, manifest_given, manifest_built, aliased, observed,
                   gathered, frames>>

\* one iteration of one of the five loops of lines 176-192
Iterate(phase, s) ==
    /\ saved_manifest' = Leave(s)
    /\ project_parser_files' = s.ppf
    /\ deleted_special_override_macro' = s.flag
    /\ events' = s.events
    /\ exc' = s.exc
    /\ pc' = IF Ok(s) THEN "running" ELSE "raised"
    /\ processing_file' = Head(todo[phase])
    /\ todo' = [todo EXCEPT ![phase] = Tail(@)]
    /\ calls' = Append(calls, <<handler_of[phase], Head(todo[phase])>>)
    /\ new_files' = LeaveNew(s)
    /\ aliased' = Shared(s)
    /\ observed' = s.observed
    /\ UNCHANGED <<os_environ, file_diff, env_vars_changed_source_files,
                   env_vars_changed_schema_files, macro_child_map, disabled_by_file_id,
                   manifest_given, manifest_built, gathered, frames>>

Running(phase) ==
    /\ pc \in {"ready", "running"}
    /\ ~skip_parsing(file_diff)
    /\ reached(phase)
    /\ todo[phase] # <<>>

AddToSaved ==
    IF Running("added")
    THEN Iterate("added", self(Enter, "add_to_saved", <<Head(todo.added)>>))
    ELSE FALSE

ChangeSchemaFile ==
    IF Running("changed_schema_files")
    THEN Iterate("changed_schema_files", self(Enter, "change_schema_file", <<Head(todo.changed_schema_files)>>))
    ELSE FALSE

DeleteSchemaFile ==
    IF Running("deleted_schema_files")
    THEN Iterate("deleted_schema_files", self(Enter, "delete_schema_file", <<Head(todo.deleted_schema_files)>>))
    ELSE FALSE

DeleteFromSaved ==
    IF Running("deleted")
    THEN Iterate("deleted", self(Enter, "delete_from_saved", <<Head(todo.deleted)>>))
    ELSE FALSE

UpdateInSaved ==
    IF Running("changed")
    THEN Iterate("changed", self(Enter, "update_in_saved", <<Head(todo.changed)>>))
    ELSE FALSE

\* line 193: return self.project_parser_files
Return ==
    /\ pc = "running"
    /\ \A ph \in Range(phases) : todo[ph] = <<>>
    /\ pc' = "done"
    /\ UNCHANGED <<saved_manifest, new_files, os_environ, file_diff,
                   env_vars_changed_source_files, env_vars_changed_schema_files,
                   macro_child_map, disabled_by_file_id, project_parser_files,
                   deleted_special_override_macro, processing_file, events, todo,
                   exc, calls, manifest_given, manifest_built, aliased, observed,
                   gathered, frames>>

Next ==
    \/ Construct
    \/ GetParsingFilesSkip
    \/ AddToSaved
    \/ ChangeSchemaFile
    \/ DeleteSchemaFile
    \/ DeleteFromSaved
    \/ UpdateInSaved
    \/ Return

Spec == Init /\ [][Next]_vars

\* A saved manifest whose child_map has a cycle: the derived metric me1 is
\* among its own dependents. The maps are built when the manifest is loaded,
\* the graph is searched for cycles only when it is compiled.
CyclicManifest == [SavedManifest EXCEPT !.child_map[uMet] = <<uMet>> \o @]

CycleInit == InitWith(CyclicManifest, Scenarios(1))

\* get_parsing_files over the cyclic manifest, one difference at a time
CycleSpec == CycleInit /\ [][Next]_vars

\* A saved manifest in which the source s of src.yml has a second table that
\* is disabled: the file lists its unique_id, disabled holds its shadow.
uSrcOff == <<"source", "pkg", "s", "off">>

DisabledSourceManifest ==
    [SavedManifest EXCEPT
        !.disabled = @ @@ (uSrcOff :> <<SourceDefinition(uSrcOff, fP)>>),
        !.files[fP].sources = <<uSrc, uSrcOff>>]

DisabledSourceInit == InitWith(DisabledSourceManifest, Scenarios(1))

\* get_parsing_files over that manifest, one difference at a time
DisabledSourceSpec == DisabledSourceInit /\ [][Next]_vars

\* A saved manifest with a snapshot file of two snapshots, sn1 and sn2; the
\* snapshots section of snap.yml has an element that patches sn1.
fSn == "proj://snapshots/snaps.sql"
uSn1 == <<"snapshot", "proj", "sn1">>
uSn2 == <<"snapshot", "proj", "sn2">>

SnapshotFileManifest ==
    [SavedManifest EXCEPT
        !.files = (fSn :> [SourceFile(fSn, Snapshot, "proj", "1") EXCEPT
                               !.nodes = <<uSn1, uSn2>>])
                  @@ [@ EXCEPT ![fS2].node_patches = Append(@, uSn1),
                               ![fS2].dfy.snapshots = Append(@, PlainElem("sn1", "1"))],
        !.nodes = @ @@ ById({Node(uSn1, "sn1", fSn, fS2, None, "snapshot", None),
                             Node(uSn2, "sn2", fSn, None, None, "snapshot", None)}),
        !.child_map = @ @@ (uSn1 :> <<>>) @@ (uSn2 :> <<>>)]

SnapshotFileInit == InitWith(SnapshotFileManifest, Scenarios(1))

\* get_parsing_files over that manifest, one difference at a time
SnapshotFileSpec == SnapshotFileInit /\ [][Next]_vars

\* A saved manifest in which the macro ref of m2.sql, the project's override
\* of ref, calls the macro m1: macro_child_map lists it under m1.
RefOverrideManifest == [SavedManifest EXCEPT !.macro_edges[uM1] = Append(@, uRef)]

RefOverrideInit == InitWith(RefOverrideManifest, Scenarios(1))

\* get_parsing_files over that manifest, one difference at a time
RefOverrideSpec == RefOverrideInit /\ [][Next]_vars

---------------------------------------------------------------------------
(* recursively_gather_macro_references on its own, one loop iteration or   *)
(* return a step, over every macro_child_map of a small set of unique_ids. *)

\* the most edges of a macro_child_map
MaxEdges == 4

GatherMacros == {uM1, uM2, uRef}
GatherIds == GatherMacros \cup {uB}

\* the lists of at most n different members of S
ListsOf(S, n) == UNION {{q \in [1..k -> S] : NoDup(q)} : k \in 0..n}

RECURSIVE edges(_, _)
\* the number of edges that map has from the macros of keys
edges(map, keys) ==
    IF keys = {} THEN 0
    ELSE LET k == CHOOSE k \in keys : TRUE
         IN  Len(map[k]) + edges(map, keys \ {k})

\* the maps Manifest.build_macro_child_map can give: every macro is a key
MacroChildMaps ==
    {map \in [GatherMacros -> ListsOf(GatherIds, Cardinality(GatherIds))] :
        edges(map, GatherMacros) <= MaxEdges}

\* a frame of recursively_gather_macro_references: the macro it was called
\* for and the part of the for loop of line 507 still to run
Frame(macro_unique_id) ==
    [macro_unique_id |-> macro_unique_id,
     rest |-> macro_child_map[macro_unique_id]]

GatherInit ==
    \E map \in MacroChildMaps : \E start \in GatherMacros :
        /\ macro_child_map = map
        /\ gathered = <<>>
        /\ frames = <<[macro_unique_id |-> start, rest |-> map[start]]>>
        /\ calls = <<<<"recursively_gather_macro_references", start>>>>
        /\ pc = "running"
        /\ exc = NoExc
        /\ saved_manifest = SavedManifest
        /\ manifest_given = SavedManifest
        /\ manifest_built = SavedManifest
        /\ new_files = SavedManifest.files
        /\ os_environ = SavedEnviron
        /\ file_diff = no_files @@ [unchanged |-> <<>>]
        /\ env_vars_changed_source_files = <<>>
        /\ env_vars_changed_schema_files = EmptyDict
        /\ disabled_by_file_id = {}
        /\ project_parser_files = EmptyDict
        /\ deleted_special_override_macro = FALSE
        /\ processing_file = None
        /\ events = <<>>
        /\ todo = no_files
        /\ aliased = {}
        /\ observed = <<>>

\* the loop iteration without the call for a macro child
gather_iteration_not_recursing(stack, nodes) ==
    LET top == stack[Len(stack)]
        unique_id == Head(top.rest)
        on == [stack EXCEPT ![Len(stack)].rest = Tail(@)]
    IN  IF InList(unique_id, nodes)
        THEN [frames |-> on, referencing_nodes |-> nodes, exc |-> NoExc]
        ELSE [frames |-> on, referencing_nodes |-> Append(nodes, unique_id),
              exc |-> NoExc]

\* lines 507-512: one iteration of the for loop of the innermost frame;
\* the result is [frames, referencing_nodes, exc]
gather_iteration(stack, nodes) ==
    LET top == stack[Len(stack)]
        unique_id == Head(top.rest)
        on == [stack EXCEPT ![Len(stack)].rest = Tail(@)]
    IN  IF InList(unique_id, nodes)
        THEN [frames |-> on, referencing_nodes |-> nodes, exc |-> NoExc]
        ELSE IF unique_id[1] = "macro"
        THEN IF Has(macro_child_map, unique_id)
             THEN [frames |-> Append(on, Frame(unique_id)),
                   referencing_nodes |-> Append(nodes, unique_id), exc |-> NoExc]
             ELSE [frames |-> on, referencing_nodes |-> Append(nodes, unique_id),
                   exc |-> "KeyError"]
        ELSE [frames |-> on, referencing_nodes |-> Append(nodes, unique_id),
              exc |-> NoExc]

GatherUnchanged ==
    UNCHANGED <<saved_manifest, new_files, os_environ, file_diff,
                env_vars_changed_source_files, env_vars_changed_schema_files,
                macro_child_map, disabled_by_file_id, project_parser_files,
                deleted_special_override_macro, processing_file, events, todo,
                calls, manifest_given, manifest_built, aliased, observed>>

\* lines 507-512: the for loop takes the next child
GatherChild ==
    /\ pc = "running"
    /\ frames # <<>>
    /\ frames[Len(frames)].rest # <<>>
    /\ LET r == gather_iteration(frames, gathered)
       IN  /\ frames' = r.frames
           /\ gathered' = r.referencing_nodes
           /\ exc' = r.exc
           /\ pc' = IF r.exc = NoExc THEN "running" ELSE "raised"
    /\ GatherUnchanged

\* line 507: the for loop is exhausted and the call returns
GatherReturn ==
    /\ pc = "running"
    /\ frames # <<>>
    /\ frames[Len(frames)].rest = <<>>
    /\ frames' = SubSeq(frames, 1, Len(frames) - 1)
    /\ pc' = IF Len(frames) = 1 THEN "done" ELSE "running"
    /\ UNCHANGED <<gathered, exc>>
    /\ GatherUnchanged

GatherNext ==
    \/ GatherChild
    \/ GatherReturn

\* the interpreter runs the call on until it returns
GatherSpec == GatherInit /\ [][GatherNext]_vars /\ WF_vars(GatherNext)

---------------------------------------------------------------------------
(* The parsers that consume the plan (dbt.parser.manifest, not part of     *)
(* partial.py): which manifest entries a file, or one element of a schema  *)
(* file, produces.                                                         *)

parsed_from_file ==
    (fA :> {uA}) @@ (fB :> {uB}) @@ (fC :> {uC}) @@ (fN :> {uN})
    @@ (fE1 :> {uE}) @@ (fE2 :> {uE}) @@ (fV :> {uV})
    @@ (fM1 :> {uM1}) @@ (fM2 :> {uM2, uRef}) @@ (fD :> {uDoc}) @@ (fX :> {uFx})

\* a patch element produces its data tests; an element that defines an
\* entry produces the entry
parsed_from_element(file_id, key, name) ==
    CASE file_id = fS /\ key = "models" /\ name = "a" -> {uT}
      [] file_id = fS /\ key = "unit_tests" /\ name = "ut1" -> {uUT}
      [] file_id = fS /\ key = "exposures" /\ name = "e1" -> {uExp}
      [] file_id = fS /\ key = "groups" /\ name = "g1" -> {uGrp}
      [] file_id = fS /\ key = "semantic_models" /\ name = "sm1" -> {uSM, uMG, uMGd}
      [] file_id = fS /\ key = "semantic_models" /\ name = "sm2" -> {uSM2, uMG2}
      [] file_id = fS /\ key = "metrics" /\ name = "me1" -> {uMet}
      [] file_id = fS /\ key = "saved_queries" /\ name = "sq1" -> {uSQ}
      [] file_id = fS2 /\ key = "snapshots" /\ name = "snap1" -> {uSnap}
      [] file_id = fP /\ key = "sources" /\ name = "s" -> {uSrc}
      [] file_id = fP /\ key = "sources" /\ name = "s2" -> {uSrc2}
      [] OTHER -> {}

\* SchemaParser.parse_file on the dictionary dct of a schema file
parse_elements(file_id, dct) ==
    UNION {UNION {parsed_from_element(file_id, key, dct[key][i].name) :
                     i \in DOMAIN dct[key]} : key \in DOMAIN dct}

\* a full parse: every file, every element of every schema file
full_parse(files) ==
    UNION {IF files[f].parse_file_type = Schema
           THEN parse_elements(f, dict_from_yaml(files[f]))
           ELSE parsed_from_file[f] : f \in DOMAIN files}

manifest_entries(manifest) == UNION {DOMAIN manifest[x] : x \in manifest_tables}

planned_files(ppf) ==
    UNION {UNION {Range(ppf[project][parser]) : parser \in DOMAIN ppf[project]} :
              project \in DOMAIN ppf}

\* a partial parse: what the plan's files produce, on top of the manifest
\* the planner left; a schema file yields the elements of its pp_dict
partial_parse(manifest, ppf) ==
    manifest_entries(manifest) \cup
    UNION {LET file == manifest.files[f]
           IN  IF file.parse_file_type # Schema THEN parsed_from_file[f]
               ELSE IF file.pp_dict = NonePPDict THEN {}
               ELSE parse_elements(f, file.pp_dict) :
              f \in planned_files(ppf) \cap DOMAIN manifest.files}

---------------------------------------------------------------------------
(* The claims.                                                             *)

\* the env vars a saved file records: its own, or those of its elements
recorded_env_vars(file) ==
    IF file.parse_file_type = Schema
    THEN UNION {file.env_vars[kn] : kn \in DOMAIN file.env_vars}
    ELSE file.env_vars

\* the file_ids that both file maps hold with one checksum
same_files(saved_files, new) ==
    /\ DOMAIN saved_files = DOMAIN new
    /\ \A f \in DOMAIN new : saved_files[f].checksum = new[f].checksum

\* a planner built now on manifest and new skips, whatever order its lists take
planner_skips(manifest, new, environ) ==
    LET env == build_env_vars_to_files(manifest, environ)
    IN  \A source_file_ids \in Perms(env.source_files) :
            \A diff \in build_file_diff(manifest.files, new, source_file_ids,
                                        env.schema_files) :
                skip_parsing(diff)

\* C1: once get_parsing_files has returned, re-parsing the files of the plan
\* (a schema file: the elements of its pp_dict) on top of the saved manifest
\* gives the entries a full parse of the new files gives.
C1_PartialParseEqualsFullParse ==
    pc = "done" =>
        partial_parse(saved_manifest, project_parser_files) = full_parse(new_files)

\* C2: skip_parsing is true exactly when added, changed, deleted,
\* changed_schema_files and deleted_schema_files are all empty, and then
\* get_parsing_files returns an empty plan, calls no handler and leaves the
\* saved manifest (files and pp_dicts included) as __init__ left it.
C2_SkipParsing ==
    /\ pc # "new" =>
           (skip_parsing(file_diff) <=>
               \A x \in {"added", "changed", "deleted", "changed_schema_files",
                         "deleted_schema_files"} : file_diff[x] = <<>>)
    /\ (pc = "done" /\ skip_parsing(file_diff)) =>
           /\ project_parser_files = EmptyDict
           /\ saved_manifest = manifest_built
           /\ calls = <<>>

C2_SkippedRun == pc = "done" /\ skip_parsing(file_diff) /\ os_environ # SavedEnviron

\* C3 as stated: when skip_parsing is true the two file maps hold the same
\* file_ids with equal checksums and no saved env var is classified as changed.
C3_SkipSound ==
    (pc # "new" /\ skip_parsing(file_diff)) =>
        /\ same_files(manifest_given.files, new_files)
        /\ changed_vars(manifest_given, os_environ) = {}

\* C3 amended: when skip_parsing is true the two file maps hold the same
\* file_ids with equal checksums and no env var recorded by a saved file
\* other than a fixture file is classified as changed.
C3_SkipSoundNonFixture ==
    (pc # "new" /\ skip_parsing(file_diff)) =>
        /\ same_files(manifest_given.files, new_files)
        /\ \A f \in DOMAIN manifest_given.files :
               manifest_given.files[f].parse_file_type # Fixture =>
                   recorded_env_vars(manifest_given.files[f])
                       \cap changed_vars(manifest_given, os_environ) = {}

C3_SkippedWithChangedVar ==
    pc # "new" /\ skip_parsing(file_diff)
    /\ changed_vars(manifest_given, os_environ) # {}

\* the saved files still present whose recorded env vars hold a changed var
env_affected(kinds) ==
    {f \in DOMAIN manifest_given.files \cap DOMAIN new_files :
        /\ manifest_given.files[f].parse_file_type \in kinds
        /\ recorded_env_vars(manifest_given.files[f])
               \cap changed_vars(manifest_given, os_environ) # {}}

\* C4 as stated: every saved file still present whose recorded env vars hold
\* a changed var is in the returned plan, fixture files included.
C4_EnvVarCascade ==
    pc = "done" =>
        env_affected(DOMAIN parse_file_type_to_parser)
            \subseteq planned_files(project_parser_files)

\* C4 amended: every saved file still present, other than a fixture file,
\* whose recorded env vars hold a changed var is in the returned plan, even
\* when its checksum is unchanged.
C4_EnvVarCascadeNonFixture ==
    pc = "done" =>
        env_affected(DOMAIN parse_file_type_to_parser \ {Fixture})
            \subseteq planned_files(project_parser_files)

C4_UnchangedChecksumPlanned ==
    /\ pc = "done"
    /\ \E f \in env_affected(DOMAIN parse_file_type_to_parser \ {Fixture}) :
           /\ manifest_given.files[f].checksum = new_files[f].checksum
           /\ f \in planned_files(project_parser_files)

\* the deleted files that own, at construction, a macro of another package
\* than dbt whose name is a special override macro
deleted_special_macro_files ==
    {f \in Range(file_diff.deleted) :
        \E u \in Range(manifest_given.files[f].macros) :
            /\ Has(manifest_given.macros, u)
            /\ u[2] # "dbt"
            /\ manifest_given.macros[u].name \in special_override_macros}

\* C5: if a deleted file owned such a macro, deleted_special_override_macro
\* is true once get_parsing_files has returned.
C5_OverrideMacroBailout ==
    (pc = "done" /\ deleted_special_macro_files # {}) => deleted_special_override_macro

\* C6: once get_parsing_files has returned, every node left with a
\* patch_path names a saved file whose node_patches lists the node.
C6_NoOrphanPatches ==
    pc = "done" =>
        \A u \in DOMAIN saved_manifest.nodes :
            LET patch_path == saved_manifest.nodes[u].patch_path
            IN  patch_path # None =>
                    /\ Has(saved_manifest.files, patch_path)
                    /\ InList(u, saved_manifest.files[patch_path].node_patches)

\* C7: once get_parsing_files has returned, the saved file map holds the
\* file_ids of the new files with their checksums, and a second planner on
\* the saved manifest and the same files skips.
C7_Idempotence ==
    pc = "done" =>
        /\ same_files(saved_manifest.files, new_files)
        /\ planner_skips(saved_manifest, new_files, os_environ)

\* C8: in every state each list of the plan holds no file_id twice, none
\* of deleted or deleted_schema_files, and only file_ids of new_files.
C8_PlanLists ==
    /\ \A project \in DOMAIN project_parser_files :
           \A parser \in DOMAIN project_parser_files[project] :
               NoDup(project_parser_files[project][parser])
    /\ \A f \in planned_files(project_parser_files) :
           /\ ~InList(f, file_diff.deleted)
           /\ ~InList(f, file_diff.deleted_schema_files)
           /\ Has(new_files, f)

C8_PlannedBesideDeleted ==
    /\ pc = "done"
    /\ file_diff.deleted # <<>>
    /\ \E project \in DOMAIN project_parser_files :
           \E parser \in DOMAIN project_parser_files[project] :
               Len(project_parser_files[project][parser]) >= 2

\* the place of a handler in the order of the five loops
phase_rank ==
    [add_to_saved |-> 1, change_schema_file |-> 2, delete_schema_file |-> 3,
     delete_from_saved |-> 4, update_in_saved |-> 5]

\* C9: the handler calls come in the order add_to_saved, change_schema_file,
\* delete_schema_file, delete_from_saved, update_in_saved.
C9_PhaseOrder ==
    \A i, j \in DOMAIN calls :
        i < j => phase_rank[calls[i][1]] <= phase_rank[calls[j][1]]

C9_DeletedThenChanged ==
    \E i, j \in DOMAIN calls :
        i < j /\ calls[i][1] = "delete_from_saved" /\ calls[j][1] = "update_in_saved"

\* C10 as stated: the six lists of file_diff are pairwise disjoint and none
\* holds a file_id twice, the env-affected files included.
C10_DiffSetsDisjoint ==
    pc # "new" =>
        /\ \A x \in DOMAIN file_diff : NoDup(file_diff[x])
        /\ \A x, y \in DOMAIN file_diff :
               x # y => Range(file_diff[x]) \cap Range(file_diff[y]) = {}

\* the file_ids build_env_vars_to_files marked
env_marked ==
    Range(env_vars_changed_source_files) \cup DOMAIN env_vars_changed_schema_files

\* C10 amended: no list of file_diff holds a file_id twice, and two lists
\* share a file_id only when one is unchanged, the other is changed or
\* changed_schema_files, and the file is env-affected.
C10_DiffSetsDisjointButEnvAffected ==
    pc # "new" =>
        /\ \A x \in DOMAIN file_diff : NoDup(file_diff[x])
        /\ \A x, y \in DOMAIN file_diff \ {"unchanged"} :
               x # y => Range(file_diff[x]) \cap Range(file_diff[y]) = {}
        /\ \A x \in {"added", "deleted", "deleted_schema_files"} :
               Range(file_diff[x]) \cap Range(file_diff.unchanged) = {}
        /\ \A x \in {"changed", "changed_schema_files"} :
               Range(file_diff[x]) \cap Range(file_diff.unchanged) \subseteq env_marked

C10_EnvAffectedBesideChanged ==
    /\ pc # "new"
    /\ Range(file_diff.changed_schema_files) \cap Range(file_diff.unchanged) # {}
    /\ Range(file_diff.changed_schema_files) \ Range(file_diff.unchanged) # {}

\* the files of the given kinds that both file maps hold, with two checksums
edited_files(kinds) ==
    {f \in DOMAIN manifest_given.files \cap DOMAIN new_files :
        /\ manifest_given.files[f].parse_file_type \in kinds
        /\ manifest_given.files[f].checksum # new_files[f].checksum}

\* the nodes that reference unique_id, as child_map lists them
referencing_nodes(unique_id) ==
    Range(Get(manifest_given.child_map, unique_id, <<>>)) \cap DOMAIN manifest_given.nodes

\* the one file that differs, when the run has a single difference: file_id
only_difference(file_id) ==
    /\ \A f \in DOMAIN new_files \cup DOMAIN manifest_given.files :
           f # file_id => /\ Has(new_files, f) /\ Has(manifest_given.files, f)
                          /\ new_files[f].checksum = manifest_given.files[f].checksum
    /\ changed_vars(manifest_given, os_environ) = {}

\* C11 as stated: once get_parsing_files has returned, an edited model file
\* is in the plan with the file of every node that references one of its
\* nodes, and its nodes and those referencing nodes are out of manifest.nodes.
C11_EditSchedulesReferencing ==
    pc = "done" =>
        \A f \in edited_files({Model}) :
            /\ f \in planned_files(project_parser_files)
            /\ \A u \in Range(manifest_given.files[f].nodes) :
                   /\ ~Has(saved_manifest.nodes, u)
                   /\ \A c \in referencing_nodes(u) :
                          /\ ~Has(saved_manifest.nodes, c)
                          /\ manifest_given.nodes[c].file_id
                                 \in planned_files(project_parser_files)

\* C11 amended: once get_parsing_files has returned, an edited model file is
\* in the plan and its nodes are out of manifest.nodes; when that file is the
\* only difference, the nodes of the other files that are not generic tests
\* stay in manifest.nodes and the plan adds only schema files patching its
\* nodes and, for a node that is disabled, the files of its other shadows.
C11_EditEvictsOwnNodes ==
    pc = "done" =>
        \A f \in edited_files({Model}) :
            /\ f \in planned_files(project_parser_files)
            /\ \A u \in Range(manifest_given.files[f].nodes) :
                   ~Has(saved_manifest.nodes, u)
            /\ only_difference(f) =>
                   /\ \A c \in DOMAIN manifest_given.nodes :
                          (/\ manifest_given.nodes[c].file_id # f
                           /\ manifest_given.nodes[c].test_node_type # "generic")
                              => Has(saved_manifest.nodes, c)
                   /\ planned_files(project_parser_files) \subseteq
                          {f} \cup {manifest_given.nodes[u].patch_path :
                                       u \in Range(manifest_given.files[f].nodes)
                                                 \cap DOMAIN manifest_given.nodes}
                              \cup UNION {{shadow.patch_path, shadow.file_id} :
                                       shadow \in UNION {Range(manifest_given.disabled[u]) :
                                                     u \in Range(manifest_given.files[f].nodes)
                                                               \cap DOMAIN manifest_given.disabled}}

C11_EditedWithReferencingKept ==
    /\ pc = "done"
    /\ fA \in edited_files({Model})
    /\ only_difference(fA)
    /\ uB \in referencing_nodes(uA)
    /\ Has(saved_manifest.nodes, uB)
    /\ ~Has(saved_manifest.nodes, uA)
    /\ fB \notin planned_files(project_parser_files)

\* the files new_files holds and the given manifest does not
added_files == DOMAIN new_files \ DOMAIN manifest_given.files

\* the only difference of the run is a set of added files that are no schema files
pure_addition ==
    /\ added_files # {}
    /\ \A f \in added_files : new_files[f].parse_file_type # Schema
    /\ \A f \in DOMAIN manifest_given.files :
           /\ Has(new_files, f)
           /\ new_files[f].checksum = manifest_given.files[f].checksum
    /\ changed_vars(manifest_given, os_environ) = {}

\* the plan that lists each file of ids under its project and the parser of its kind
plan_of(ids) ==
    /\ planned_files(project_parser_files) = ids
    /\ \A f \in ids :
           /\ Has(project_parser_files, new_files[f].project_name)
           /\ Has(project_parser_files[new_files[f].project_name],
                  parse_file_type_to_parser[new_files[f].parse_file_type])
           /\ InList(f, project_parser_files[new_files[f].project_name]
                            [parse_file_type_to_parser[new_files[f].parse_file_type]])

\* C12: when the run only adds files that are no schema files, the plan
\* get_parsing_files returns lists exactly the added files, each under the
\* parser of its kind, every added file is in the saved file map, and every
\* manifest table and disabled are as they were given.
C12_PureAddition ==
    (pc = "done" /\ pure_addition) =>
        /\ plan_of(added_files)
        /\ added_files \subseteq DOMAIN saved_manifest.files
        /\ \A f \in DOMAIN manifest_given.files :
               Has(saved_manifest.files, f) /\ saved_manifest.files[f] = manifest_given.files[f]
        /\ \A x \in manifest_tables : saved_manifest[x] = manifest_given[x]

C12_AddedModelPlanned ==
    /\ pc = "done"
    /\ pure_addition
    /\ fN \in added_files
    /\ project_parser_files = [proj |-> [ModelParser |-> <<fN>>]]
    /\ Has(saved_manifest.files, fN)

\* the saved macro files that new_files no longer holds
deleted_macro_files ==
    {f \in DOMAIN manifest_given.files \ DOMAIN new_files :
        manifest_given.files[f].parse_file_type = Macro}

RECURSIVE macro_reach(_, _)
\* what macro_child_map reaches from the macros of ids in at most n steps,
\* going on only through macros
macro_reach(ids, n) ==
    IF n = 0 THEN ids
    ELSE macro_reach(ids \cup UNION {Range(Get(macro_child_map, m, <<>>)) :
                                        m \in {u \in ids : u[1] = "macro"}}, n - 1)

\* the nodes and macros a macro reaches over chains of macros
macro_fan_out(m) == macro_reach({m}, Cardinality(DOMAIN manifest_given.macros)) \ {m}

\* the nodes of the fan-out the macro handlers reschedule: no generic test,
\* and the node's file is still there
fanned_nodes(m) ==
    {u \in macro_fan_out(m) \cap DOMAIN manifest_given.nodes :
        /\ manifest_given.nodes[u].test_node_type # "generic"
        /\ Has(new_files, manifest_given.nodes[u].file_id)}

fanned_macros(m) == macro_fan_out(m) \cap DOMAIN manifest_given.macros

\* C13: once get_parsing_files has returned, for every macro of a changed or
\* deleted macro file, every node its fan-out reaches is out of manifest.nodes
\* with its file in the plan, the file of every macro of the fan-out that
\* new_files still holds is in the plan, and a changed macro file is in the plan.
C13_MacroFanOut ==
    pc = "done" =>
        \A f \in edited_files({Macro}) \cup deleted_macro_files :
            /\ f \in edited_files({Macro}) => f \in planned_files(project_parser_files)
            /\ \A m \in Range(manifest_given.files[f].macros) :
                   /\ \A u \in fanned_nodes(m) :
                          /\ ~Has(saved_manifest.nodes, u)
                          /\ manifest_given.nodes[u].file_id
                                 \in planned_files(project_parser_files)
                   /\ \A i \in fanned_macros(m) :
                          Has(new_files, manifest_given.macros[i].file_id)
                              => manifest_given.macros[i].file_id
                                     \in planned_files(project_parser_files)

\* the entry of unique_id in whichever table of the given manifest holds it
given_entry(unique_id) ==
    manifest_given[CHOOSE x \in manifest_tables \ {"disabled"} :
                       Has(manifest_given[x], unique_id)][unique_id]

\* the models a changed schema file patches with another group than the node has
regrouped_models(f) ==
    {u \in Range(manifest_given.files[f].node_patches) \cap DOMAIN manifest_given.nodes :
        /\ Has(new_files, f)
        /\ Has(dict_from_yaml(new_files[f]), "models")
        /\ LET elem == get_schema_element(dict_from_yaml(new_files[f]).models,
                                          manifest_given.nodes[u].name)
           IN  elem # NoneElem /\ elem.group # manifest_given.nodes[u].group}

\* the children of unique_id that are no generic tests and whose file is still there
rescheduled_children(unique_id) ==
    {c \in Range(Get(manifest_given.child_map, unique_id, <<>>)) :
        /\ \E x \in manifest_tables \ {"disabled"} : Has(manifest_given[x], c)
        /\ ~(Has(manifest_given.nodes, c) /\ manifest_given.nodes[c].test_node_type = "generic")
        /\ Has(new_files, given_entry(c).file_id)}

\* C14: once get_parsing_files has returned, for a model whose patch in a
\* changed schema file names another group, the plan holds the model's file,
\* the file of each of its children and the schema file; the model and the
\* children are out of manifest.nodes; and pp_dict['models'] of the schema
\* file holds the new element of the model.
C14_GroupChange ==
    pc = "done" =>
        \A f \in edited_files({Schema}) : \A a \in regrouped_models(f) :
            /\ {f, manifest_given.nodes[a].file_id} \cap DOMAIN new_files
                   \subseteq planned_files(project_parser_files)
            /\ ~Has(saved_manifest.nodes, a)
            /\ \A c \in rescheduled_children(a) :
                   /\ ~Has(saved_manifest.nodes, c)
                   /\ given_entry(c).file_id \in planned_files(project_parser_files)
            /\ InList(get_schema_element(dict_from_yaml(new_files[f]).models,
                                         manifest_given.nodes[a].name),
                      Get(saved_manifest.files[f].pp_dict, "models", <<>>))

\* the sources elements of a file's YAML that carry an overrides key
override_elements(file) ==
    IF file.parse_file_type = Schema /\ Has(dict_from_yaml(file), "sources")
    THEN {e \in Range(dict_from_yaml(file).sources) : e.overrides # None}
    ELSE {}

\* the overriding elements the run touches, as <<file_id, element>>: the
\* element is added, changed or deleted (with its file or alone), or an env
\* var its saved file records for it has changed
touched_overrides ==
    LET saved == manifest_given.files
        all == {<<f, e>> : f \in DOMAIN saved, e \in UNION {override_elements(saved[g]) :
                                                              g \in DOMAIN saved}}
               \cup {<<f, e>> : f \in DOMAIN new_files,
                                e \in UNION {override_elements(new_files[g]) :
                                                g \in DOMAIN new_files}}
        in_saved(f, e) == Has(saved, f) /\ e \in override_elements(saved[f])
        in_new(f, e) == Has(new_files, f) /\ e \in override_elements(new_files[f])
    IN  {fe \in all :
            LET f == fe[1]
                e == fe[2]
            IN  \/ in_new(f, e) /\ ~in_saved(f, e)
                \/ in_saved(f, e) /\ ~in_new(f, e)
                \/ /\ in_saved(f, e) /\ in_new(f, e)
                   /\ Get(saved[f].env_vars, <<"sources", e.name>>, {})
                          \cap changed_vars(manifest_given, os_environ) # {}}

\* the tables of the source an overriding element names, in the given manifest
original_tables(e) ==
    {u \in DOMAIN manifest_given.sources :
        /\ manifest_given.sources[u].package_name = e.overrides
        /\ manifest_given.sources[u].source_name = e.name}

\* the saved file holds an element of that name in pp_dict['sources']
in_pp_dict_sources(f, name) ==
    /\ Has(saved_manifest.files, f)
    /\ \E x \in Range(Get(saved_manifest.files[f].pp_dict, "sources", <<>>)) : x.name = name

\* C15: once get_parsing_files has returned, for every overriding sources
\* element the run touches, the overriding file and the file of the original
\* source are in the plan (a file new_files lacks is not expected there), each
\* with an element of that name in pp_dict['sources'] (the overriding file
\* when its new YAML still has the element), and the tables of the original
\* source are out of manifest.sources.
C15_SourceOverride ==
    pc = "done" =>
        \A fe \in touched_overrides :
            /\ Has(new_files, fe[1]) =>
                   /\ fe[1] \in planned_files(project_parser_files)
                   /\ (\E e \in override_elements(new_files[fe[1]]) : e.name = fe[2].name)
                          => in_pp_dict_sources(fe[1], fe[2].name)
            /\ \A u \in original_tables(fe[2]) :
                   /\ Has(new_files, manifest_given.sources[u].file_id) =>
                          /\ manifest_given.sources[u].file_id
                                 \in planned_files(project_parser_files)
                          /\ in_pp_dict_sources(manifest_given.sources[u].file_id, fe[2].name)
                   /\ ~Has(saved_manifest.sources, u)

C17_SilentAbsence == exc \notin {KeyErrorUniqueId, AttributeErrorNone}

\* how many events of the run are PartialParsingFile(operation, file_id)
file_events(operation, file_id) ==
    Cardinality({i \in DOMAIN events : events[i] = PartialParsingFile(operation, file_id)})

\* the operation a handler reports for the files of each list of file_diff
operation_of ==
    [added |-> "added", changed |-> "updated", changed_schema_files |-> "updated",
     deleted |-> "deleted", deleted_schema_files |-> "deleted"]

\* C18: the first event of a planner is its one PartialParsingEnabled event,
\* fired once the diff is built, and once get_parsing_files has returned there
\* is exactly one PartialParsingFile event for every file_id of added,
\* changed, changed_schema_files, deleted and deleted_schema_files, with the
\* operation of its list, and no other event.
C18_Events ==
    /\ pc # "new" =>
           /\ events # <<>> /\ Head(events) = PartialParsingEnabled(file_diff)
           /\ \A i \in DOMAIN events : i > 1 => events[i].event = "PartialParsingFile"
    /\ pc = "new" => events = <<>>
    /\ pc = "done" =>
           /\ \A ph \in Range(phases) : \A f \in Range(file_diff[ph]) :
                  file_events(operation_of[ph], f) = 1
           /\ Len(events) = 1 + Cardinality(UNION {Range(file_diff[ph]) : ph \in Range(phases)})

RECURSIVE handle_each(_, _, _)
\* one loop of lines 176-192: the handler on each file_id of the list, in order
handle_each(s, handler, file_ids) ==
    IF file_ids = <<>> \/ s.exc # NoExc THEN s
    ELSE handle_each(self(s, handler, <<Head(file_ids)>>), handler, Tail(file_ids))

RECURSIVE loops(_, _, _)
\* lines 176-192: the five loops from the i-th on, over the lists of diff
loops(s, diff, i) ==
    IF i > Len(phases) THEN s
    ELSE loops(handle_each(s, handler_of[phases[i]], diff[phases[i]]), diff, i + 1)

\* lines 171-193: get_parsing_files of the planner that __init__ left with the
\* lists of diff, as one function of the order of the lists
get_parsing_files(diff) ==
    LET s == EnterFrom(manifest_built, EmptyDict, FALSE, <<>>)
    IN  IF skip_parsing(diff) THEN s ELSE loops(s, diff, 1)

\* every file_diff that differs from the one built only in the order of its lists
reordered_diffs ==
    UNION {build_file_diff(manifest_built.files, new_files, source_file_ids,
                           env_vars_changed_schema_files) :
              source_file_ids \in Perms(Range(env_vars_changed_source_files))}

\* what a run leaves: whether it raised and, when it did not, the file_ids per
\* project and parser, the manifest tables, and the elements of each pp_dict
outcome(s) ==
    IF s.exc # NoExc THEN [raised |-> TRUE]
    ELSE [raised |-> FALSE,
          plan |-> [project \in DOMAIN s.ppf |->
                       [parser \in DOMAIN s.ppf[project] |-> Range(s.ppf[project][parser])]],
          tables |-> [x \in manifest_tables |-> s[x]],
          pp_dict |-> [f \in {g \in DOMAIN s.files : File(s, s.files[g]).parse_file_type = Schema} |->
                          LET pp_dict == File(s, s.files[f]).pp_dict
                          IN  [key \in DOMAIN pp_dict |-> Range(pp_dict[key])]]]

\* the run the actions made, as a handler state
this_run ==
    [EnterFrom(saved_manifest, project_parser_files, deleted_special_override_macro, events)
        EXCEPT !.exc = exc]

\* C19: once the run has ended, raising or not, its outcome is the outcome of
\* get_parsing_files under every other order of the file_ids inside the lists
\* of file_diff.
C19_Determinism ==
    pc \in {"done", "raised"} =>
        \A diff \in reordered_diffs : outcome(get_parsing_files(diff)) = outcome(this_run)

\* the nodes delete_from_saved is to reschedule with unique_id: no generic
\* test, and new_files still holds the node's file
rescheduled_node(unique_id) ==
    /\ Has(manifest_given.nodes, unique_id)
    /\ manifest_given.nodes[unique_id].test_node_type # "generic"
    /\ Has(new_files, manifest_given.nodes[unique_id].file_id)

RECURSIVE child_reach(_, _)
\* what child_map reaches from ids in at most n steps through rescheduled nodes
child_reach(ids, n) ==
    IF n = 0 THEN ids
    ELSE child_reach(ids \cup {c \in UNION {Range(Get(manifest_given.child_map, u, <<>>)) :
                                               u \in ids} : rescheduled_node(c)}, n - 1)

\* the calls of delete_from_saved on a model, seed, snapshot, analysis or
\* singular test file that have returned
deleted_mssat_files ==
    {calls[i][2] : i \in {j \in DOMAIN calls :
        /\ calls[j][1] = "delete_from_saved"
        /\ manifest_given.files[calls[j][2]].parse_file_type \in mssat_files
        /\ (j < Len(calls) \/ pc # "raised")}}

\* C20: from the return of delete_from_saved on a model, seed, snapshot,
\* analysis or singular test file, the file is neither in the saved file map
\* nor in the plan, none of its unique_ids is in manifest.nodes, and every node
\* child_map reaches from them over rescheduled nodes is out of manifest.nodes
\* with its file in the plan.
C20_DeleteMssatFile ==
    \A f \in deleted_mssat_files :
        /\ ~Has(saved_manifest.files, f)
        /\ f \notin planned_files(project_parser_files)
        /\ \A u \in Range(manifest_given.files[f].nodes) :
               /\ ~Has(saved_manifest.nodes, u)
               /\ \A c \in child_reach({u}, Cardinality(DOMAIN manifest_given.nodes)) \ {u} :
                      /\ ~Has(saved_manifest.nodes, c)
                      /\ manifest_given.nodes[c].file_id \in planned_files(project_parser_files)


\* the macro and generic test files in the changed and deleted lists
listed_macro_files ==
    {f \in Range(file_diff.changed) \cup Range(file_diff.deleted) :
        manifest_given.files[f].parse_file_type \in mg_files}

\* C21: once the object is constructed, macro_child_map is the map built from
\* the saved manifest whenever the changed or the deleted list holds a macro or
\* generic test file, a macro file listed for a changed env var included.
C21_MacroChildMapBuilt ==
    (pc # "new" /\ listed_macro_files # {})
        => macro_child_map = build_macro_child_map(manifest_given)


\* the calls of merge_patch the last handler made, in order
merges == SelectSeq(observed, LAMBDA r : r.call = "merge_patch")

\* the elements of pp_dict[key] whose name is name
named(pp_dict, key, name) ==
    SelectSeq(Get(pp_dict, key, <<>>), LAMBDA e : e.name = name)

\* the elements of pp_dict[key] whose name is not name
not_named(pp_dict, key, name) ==
    SelectSeq(Get(pp_dict, key, <<>>), LAMBDA e : e.name # name)

no_name_twice(pp_dict) ==
    \A key \in DOMAIN pp_dict :
        \A i, j \in DOMAIN pp_dict[key] :
            pp_dict[key][i].name = pp_dict[key][j].name => i = j

\* what one call of merge_patch, recorded as r, is to leave behind
merged_as_stated(r) ==
    LET was == named(r.before, r.key, r.patch.name)
    IN  /\ named(r.after, r.key, r.patch.name) =
               IF was = <<>> \/ r.new_patch THEN <<r.patch>> ELSE was
        /\ not_named(r.after, r.key, r.patch.name) =
               not_named(r.before, r.key, r.patch.name)
        /\ DOMAIN r.after = DOMAIN r.before \cup {r.key}
        /\ \A k \in DOMAIN r.before \ {r.key} : r.after[k] = r.before[k]
        /\ r.planned <=> ~InList(r.file_id, file_diff.deleted_schema_files)
        /\ no_name_twice(r.after)

\* the saved schema files something is pending in
pending_files ==
    {f \in DOMAIN saved_manifest.files :
        /\ IsSchemaSourceFile(saved_manifest.files[f])
        /\ saved_manifest.files[f].pp_dict # NonePPDict}

\* the patches tried on the pending file f: its pending elements, as they
\* are and with other content, and an element of a name not seen so far
tried_patches(f) ==
    LET pp_dict == saved_manifest.files[f].pp_dict
        pending == UNION {Range(pp_dict[k]) : k \in DOMAIN pp_dict}
    IN  pending \cup {[e EXCEPT !.rev = "3"] : e \in pending} \cup {PlainElem("z", "1")}

\* the record of merge_patch(saved_files[f], key, patch, new_patch) called now
merge_now(f, key, patch, new_patch) ==
    LET s == self(Enter, "merge_patch", <<Enter.files[f], key, patch, new_patch>>)
    IN  s.observed[Len(s.observed)]

patched_removals ==
    SelectSeq(observed, LAMBDA r :
        /\ r.call = "remove_node_in_saved"
        /\ r.node # NoneNode
        /\ Has(parse_file_type_to_key, r.parse_file_type)
        /\ r.node.patch_path # None
        /\ r.before.file_id # None
        /\ named(dict_from_yaml(r.before), parse_file_type_to_key[r.parse_file_type],
                 r.node.name) # <<>>)

\* what such a call leaves in the schema file, the plan apart
patch_preserved(r) ==
    LET section == parse_file_type_to_key[r.parse_file_type]
        pending == named(r.before.pp_dict, section, r.node.name)
        element == get_schema_element(dict_from_yaml(r.before)[section], r.node.name)
    IN  /\ r.after.file_id # None
        /\ named(r.after.pp_dict, section, r.node.name) =
               IF pending # <<>> THEN pending ELSE <<element>>
        /\ ~InList(r.unique_id, r.after.node_patches)

removals ==
    SelectSeq(observed, LAMBDA r : r.call = "remove_node_in_saved" /\ r.node # NoneNode)

\* C24: after remove_node_in_saved has removed a node, from nodes or from
\* disabled, every shadow that disabled still lists under its unique_id has
\* no patch_path, whether the removed node had one or not.
C24_ShadowsCleared ==
    \A i \in DOMAIN removals :
        \A j \in DOMAIN removals[i].disabled : removals[i].disabled[j].patch_path = None


\* the entries of manifest that file_id owns: what its parser made of it
owned_entries(manifest, file_id) ==
    {u \in UNION {DOMAIN manifest[x] : x \in {"nodes", "macros", "docs", "fixtures"}} :
        \E x \in {"nodes", "macros", "docs", "fixtures"} :
            Has(manifest[x], u) /\ manifest[x][u].file_id = file_id}
    \cup {u \in DOMAIN manifest.disabled :
             \E i \in DOMAIN manifest.disabled[u] : manifest.disabled[u][i].file_id = file_id}

\* the step is a call of update_in_saved that returned
updated_in_saved ==
    /\ Len(calls') = Len(calls) + 1
    /\ calls'[Len(calls')][1] = "update_in_saved"
    /\ pc' # "raised"

\* C25: a call of update_in_saved on a file that is already in the plan
\* leaves the manifest tables, the saved files with their pp_dicts and the
\* plan as they are; on a file not yet in the plan it leaves a copy of the new
\* file in saved_files, the file in the plan and none of the entries the old
\* file owned in the manifest.
C25_UpdateInSaved ==
    [][updated_in_saved =>
        LET file_id == calls'[Len(calls')][2]
        IN  IF file_id \in planned_files(project_parser_files)
            THEN /\ saved_manifest' = saved_manifest
                 /\ project_parser_files' = project_parser_files
            ELSE /\ saved_manifest'.files[file_id] = new_files[file_id]
                 /\ file_id \in planned_files(project_parser_files')
                 /\ owned_entries(saved_manifest', file_id) = {}]_vars

\* update_in_saved has returned for a changed file that the plan already
\* held, and for another one that it did not hold and that owned entries
C25_UpdatedPlannedAndUnplanned ==
    /\ pc = "running"
    /\ \E i \in DOMAIN observed :
          /\ observed[i].call = "update_in_saved"
          /\ observed[i].scheduled
    /\ \E i \in DOMAIN calls :
          /\ calls[i][1] = "update_in_saved"
          /\ owned_entries(manifest_built, calls[i][2]) # {}
          /\ owned_entries(saved_manifest, calls[i][2]) = {}
          /\ i < Len(calls)


\* the saved env var v is unset now
unset_now(v) == getenv(os_environ, v) = None

\* the saved env var v reads as it did: by its default, or by an equal value
reads_as_saved(v) ==
    \/ unset_now(v) /\ manifest_given.env_vars[v] = DEFAULT_ENV_PLACEHOLDER
    \/ getenv(os_environ, v) = manifest_given.env_vars[v]

\* the files whose recorded env vars hold one that does not read as saved,
\* fixture files apart
files_of_changed_vars ==
    {f \in DOMAIN manifest_given.files :
        /\ manifest_given.files[f].parse_file_type # Fixture
        /\ \E v \in recorded_env_vars(manifest_given.files[f]) :
               Has(manifest_given.env_vars, v) /\ ~reads_as_saved(v)}

\* C26: __init__ puts every saved env var in exactly one of unchanged and
\* changed: unchanged when it is unset and saved as the default placeholder or
\* when its value is the saved one, changed otherwise; it removes from
\* manifest.env_vars exactly the vars that are unset and not saved as the
\* placeholder; and the files listed as env-affected are those of the changed
\* vars.
C26_EnvVarClasses ==
    LET saved == DOMAIN manifest_given.env_vars
        unchanged == unchanged_vars(manifest_given, os_environ)
        changed == changed_vars(manifest_given, os_environ)
    IN  pc # "new" =>
        /\ unchanged \cup changed = saved
        /\ unchanged \cap changed = {}
        /\ \A v \in saved : v \in unchanged <=> reads_as_saved(v)
        /\ \A v \in saved :
               ~Has(manifest_built.env_vars, v) <=>
                   (unset_now(v) /\ manifest_given.env_vars[v] # DEFAULT_ENV_PLACEHOLDER)
        /\ \A v \in DOMAIN manifest_built.env_vars :
               v \in saved /\ manifest_built.env_vars[v] = manifest_given.env_vars[v]
        /\ Range(env_vars_changed_source_files) \cup DOMAIN env_vars_changed_schema_files
               = files_of_changed_vars

\* one var is removed, one has a new value, one still reads by its default
C26_RemovedChangedAndDefault ==
    /\ pc = "ready"
    /\ \E v \in DOMAIN manifest_given.env_vars : ~Has(manifest_built.env_vars, v)
    /\ \E v \in DOMAIN manifest_built.env_vars : ~reads_as_saved(v)
    /\ \E v \in DOMAIN manifest_built.env_vars : unset_now(v) /\ reads_as_saved(v)


\* the pairs of YAML dictionaries the schema file handlers hand to
\* get_diff_for: saved and new for a changed file, saved and {} for a deleted one
yaml_pairs ==
    {<<dict_from_yaml(saved_manifest.files[f]), dict_from_yaml(new_files[f])>> :
        f \in {g \in Range(file_diff.changed_schema_files) :
                  Has(saved_manifest.files, g) /\ Has(new_files, g)}}
    \cup {<<dict_from_yaml(saved_manifest.files[f]), EmptyDict>> :
             f \in {g \in Range(file_diff.deleted_schema_files) :
                       Has(saved_manifest.files, g)}}

names_of(elements) == {elements[i].name : i \in DOMAIN elements}

\* the element of the section that has the name (the section lists it once)
element_of(yaml_dict, key, name) == get_schema_element(Get(yaml_dict, key, <<>>), name)

\* the lists of get_diff_for are the ones stated, for a section of either dictionary
lists_as_stated(key, saved, new) ==
    LET diff == get_diff_for(key, saved, new)
        saved_names == names_of(Get(saved, key, <<>>))
        new_names == names_of(Get(new, key, <<>>))
    IN  /\ names_of(diff.deleted) = saved_names \ new_names
        /\ names_of(diff.added) = new_names \ saved_names
        /\ names_of(diff.changed) =
               {n \in saved_names \cap new_names :
                   element_of(saved, key, n) # element_of(new, key, n)}
        /\ \A i \in DOMAIN diff.deleted :
               diff.deleted[i] = element_of(saved, key, diff.deleted[i].name)
        /\ \A i \in DOMAIN diff.added :
               diff.added[i] = element_of(new, key, diff.added[i].name)
        /\ \A i \in DOMAIN diff.changed :
               diff.changed[i] = element_of(new, key, diff.changed[i].name)
        /\ Len(diff.deleted) = Cardinality(names_of(diff.deleted))
        /\ Len(diff.added) = Cardinality(names_of(diff.added))
        /\ Len(diff.changed) = Cardinality(names_of(diff.changed))

\* C27: for every section, get_diff_for returns the four keys deleted, added,
\* changed and changed_or_deleted_names, also for a section that neither
\* dictionary has; the names under deleted, added and changed are disjoint and
\* are the names only saved has (saved element), only new has, and both have
\* with unequal elements (new element); changed_or_deleted_names holds the
\* changed and the deleted names.
C27_GetDiffFor ==
    pc # "new" =>
        \A pair \in yaml_pairs :
        \A i \in DOMAIN schema_sections :
            LET diff == get_diff_for(schema_sections[i], pair[1], pair[2])
            IN  /\ DOMAIN diff = {"deleted", "added", "changed", "changed_or_deleted_names"}
                /\ lists_as_stated(schema_sections[i], pair[1], pair[2])
                /\ Range(diff.changed_or_deleted_names) =
                       names_of(diff.changed) \cup names_of(diff.deleted)


\* the step is a call of change_schema_file that returned
changed_schema_file ==
    /\ Len(calls') = Len(calls) + 1
    /\ calls'[Len(calls')][1] = "change_schema_file"
    /\ pc' # "raised"

\* the names of the section that are added or changed from saved to new
added_or_changed(saved, new, key) ==
    {n \in names_of(Get(new, key, <<>>)) :
        \/ n \notin names_of(Get(saved, key, <<>>))
        \/ element_of(saved, key, n) # element_of(new, key, n)}

\* the names of the section that are changed or deleted from saved to new
changed_or_deleted(saved, new, key) ==
    {n \in names_of(Get(saved, key, <<>>)) :
        \/ n \notin names_of(Get(new, key, <<>>))
        \/ element_of(saved, key, n) # element_of(new, key, n)}

\* the entries <<table, unique_id>> of the manifest that the schema file
\* records for the element: the nodes it patches, its tests, its snapshot,
\* the tables of its source, its macro, its exposure, metric, group,
\* semantic model, saved query or unit test
made_of(manifest, file, key, name) ==
    {e \in
        {<<"nodes", u>> : u \in {v \in Range(file.node_patches) :
                                    /\ Has(key_to_prefix, key)
                                    /\ v[1] = key_to_prefix[key]
                                    /\ v[3] = name}}
        \cup {<<"nodes", u>> : u \in Range(Get(file.data_tests, <<key, name>>, <<>>))}
        \cup {<<"nodes", u>> : u \in {v \in Range(file.snapshots) :
                                         /\ key = "snapshots"
                                         /\ Has(manifest.nodes, v)
                                         /\ manifest.nodes[v].name = name}}
        \cup {<<"sources", u>> : u \in {v \in Range(file.sources) :
                                           /\ key = "sources"
                                           /\ Has(manifest.sources, v)
                                           /\ manifest.sources[v].source_name = name}}
        \cup {<<"macros", file.macro_patches[n]>> :
                 n \in {m \in DOMAIN file.macro_patches : key = "macros" /\ m = name}}
        \cup UNION {{<<t, u>> : u \in {v \in Range(file[t]) :
                                          /\ key = t
                                          /\ Has(manifest[t], v)
                                          /\ manifest[t][v].name = name}} :
                       t \in {"exposures", "metrics", "groups", "semantic_models",
                              "saved_queries", "unit_tests"}} :
        Has(manifest[e[1]], e[2])}

\* C28: a call of change_schema_file(f) that returns leaves the checksum, the
\* contents and the dfy of the new file in the saved schema file, f in the
\* plan, the new version of every added or changed element of a section in
\* pp_dict[section], and no manifest entry that the file recorded for a
\* changed or deleted element in its table.
C28_ChangeSchemaFile ==
    [][changed_schema_file =>
        LET f == calls'[Len(calls')][2]
            file == saved_manifest.files[f]
            saved == dict_from_yaml(file)
            new == dict_from_yaml(new_files[f])
            after == saved_manifest'.files[f]
        IN  /\ after.checksum = new_files[f].checksum
            /\ after.contents = new_files[f].contents
            /\ after.dfy = new_files[f].dfy
            /\ f \in planned_files(project_parser_files')
            /\ \A i \in DOMAIN schema_sections :
                   LET key == schema_sections[i] IN
                   /\ \A n \in added_or_changed(saved, new, key) :
                          InList(element_of(new, key, n), Get(after.pp_dict, key, <<>>))
                   /\ \A n \in changed_or_deleted(saved, new, key) :
                          \A e \in made_of(saved_manifest, file, key, n) :
                              ~Has(saved_manifest'[e[1]], e[2])]_vars


\* change_schema_file has returned for a file with a changed element that
\* the manifest had entries for: the entries are gone and the new version of
\* the element is in pp_dict
C28_ChangedElementReplayed ==
    /\ pc = "running"
    /\ Len(calls) = 1
    /\ calls[1][1] = "change_schema_file"
    /\ LET f == calls[1][2]
           file == manifest_built.files[f]
           saved == dict_from_yaml(file)
           new == dict_from_yaml(new_files[f])
       IN  \E i \in DOMAIN schema_sections :
               LET key == schema_sections[i] IN
               \E n \in added_or_changed(saved, new, key)
                            \cap changed_or_deleted(saved, new, key) :
                   /\ made_of(manifest_built, file, key, n) # {}
                   /\ \A e \in made_of(manifest_built, file, key, n) :
                          ~Has(saved_manifest[e[1]], e[2])
                   /\ InList(element_of(new, key, n),
                             Get(saved_manifest.files[f].pp_dict, key, <<>>))


\* C29: a call of change_schema_file(f) that returns keeps the pending
\* elements: every name that a section of the file's pp_dict held before the
\* call is still held by that section of pp_dict after it.
C29_PendingElementsSurvive ==
    [][changed_schema_file =>
        LET f == calls'[Len(calls')][2]
            before == saved_manifest.files[f].pp_dict
            after == saved_manifest'.files[f].pp_dict
        IN  \A key \in DOMAIN before :
                names_of(before[key]) \subseteq names_of(Get(after, key, <<>>))]_vars


\* the names of the section of file f that build_env_vars_to_files marked
env_named_elements(f, key) ==
    Range(Get(Get(env_vars_changed_schema_files, f, EmptyDict), key, <<>>))

\* C30: a call of change_schema_file(f) that returns leaves, for every element
\* that is marked env-affected, is in the new YAML and is not among the
\* changed or deleted names of its section, no manifest entry that the file
\* recorded for the element and the new version of the element in
\* pp_dict[section]; and the section walk deletes for no element of f that
\* is neither changed, deleted nor env-affected.
C30_EnvVarReplay ==
    [][changed_schema_file =>
        LET f == calls'[Len(calls')][2]
            file == saved_manifest.files[f]
            saved == dict_from_yaml(file)
            new == dict_from_yaml(new_files[f])
            after == saved_manifest'.files[f]
            walks == SelectSeq(observed', LAMBDA r : r.call = "section_walk")
        IN  /\ \A i \in DOMAIN schema_sections :
                   LET key == schema_sections[i] IN
                   \A n \in (env_named_elements(f, key) \cap names_of(Get(new, key, <<>>)))
                                \ changed_or_deleted(saved, new, key) :
                       /\ \A e \in made_of(saved_manifest, file, key, n) :
                              ~Has(saved_manifest'[e[1]], e[2])
                       /\ InList(element_of(new, key, n), Get(after.pp_dict, key, <<>>))
            /\ \A j \in DOMAIN walks :
                   /\ walks[j].file_id = f
                   /\ walks[j].name \in changed_or_deleted(saved, new, walks[j].key)
                                            \cup env_named_elements(f, walks[j].key)]_vars

\* change_schema_file has returned for a file with an env-affected element
\* that is otherwise unchanged and that the manifest had entries for, and with
\* another element of that section that the walk left alone
C30_EnvAffectedReplayed ==
    /\ pc = "running"
    /\ Len(calls) = 1
    /\ calls[1][1] = "change_schema_file"
    /\ LET f == calls[1][2]
           file == manifest_built.files[f]
           saved == dict_from_yaml(file)
           new == dict_from_yaml(new_files[f])
       IN  \E i \in DOMAIN schema_sections :
               LET key == schema_sections[i] IN
               \E n \in (env_named_elements(f, key) \cap names_of(Get(new, key, <<>>)))
                            \ changed_or_deleted(saved, new, key) :
                   /\ made_of(manifest_built, file, key, n) # {}
                   /\ \A e \in made_of(manifest_built, file, key, n) :
                          ~Has(saved_manifest[e[1]], e[2])
                   /\ InList(element_of(new, key, n),
                             Get(saved_manifest.files[f].pp_dict, key, <<>>))
                   /\ \E r \in Range(observed) :
                          r.call = "section_walk" /\ r.key = key /\ r.name = n /\ r.merge


\* the step is a call of change_schema_file or delete_schema_file that returned
walked_schema_file ==
    /\ Len(calls') = Len(calls) + 1
    /\ calls'[Len(calls')][1] \in {"change_schema_file", "delete_schema_file"}
    /\ pc' # "raised"

\* the YAML a schema file handler compares the saved YAML of f with
new_yaml_of(f) == IF Has(new_files, f) THEN dict_from_yaml(new_files[f]) ELSE EmptyDict

\* the nodes of manifest.nodes that the file patches with a changed or deleted
\* models element, when the node is versioned or the element handed to
\* delete_schema_mssa_links (the new one when changed, the saved one when
\* deleted) has a versions key
version_patched(manifest, file, saved, new) ==
    {u \in Range(file.node_patches) \cap DOMAIN manifest.nodes :
        /\ u[1] = key_to_prefix["models"]
        /\ u[3] \in changed_or_deleted(saved, new, "models")
        /\ LET elem == IF u[3] \in names_of(Get(new, "models", <<>>))
                       THEN element_of(new, "models", u[3])
                       ELSE element_of(saved, "models", u[3])
           IN  manifest.nodes[u].is_versioned \/ elem.versions}

\* the nodes of manifest.nodes that reference unique_id through child_map, are
\* no generic tests and live in a saved file that is not deleted
live_referencing(manifest, unique_id, keep) ==
    {c \in Range(Get(manifest.child_map, unique_id, <<>>)) \cap DOMAIN manifest.nodes :
        /\ ~(manifest.nodes[c].resource_type = "test"
             /\ manifest.nodes[c].test_node_type = "generic")
        /\ Has(manifest.files, manifest.nodes[c].file_id)
        /\ ~InList(manifest.nodes[c].file_id, file_diff.deleted)
        /\ keep[manifest.files[manifest.nodes[c].file_id].parse_file_type]}

all_files == [t \in {Schema} \cup DOMAIN parse_file_type_to_parser |-> TRUE]

\* the plan lists no file twice
planned_once(ppf) ==
    \A project \in DOMAIN ppf : \A parser \in DOMAIN ppf[project] :
        NoDup(ppf[project][parser])

\* for every model that f patches with versions at stake, the referencing
\* nodes in files of the kinds kept are evicted and their files planned once
versions_rescheduled(keep) ==
    LET f == calls'[Len(calls')][2]
        file == saved_manifest.files[f]
        saved == dict_from_yaml(file)
        new == IF calls'[Len(calls')][1] = "change_schema_file"
               THEN new_yaml_of(f) ELSE EmptyDict
    IN  /\ planned_once(project_parser_files')
        /\ \A u \in version_patched(saved_manifest, file, saved, new) :
               \A c \in live_referencing(saved_manifest, u, keep) :
                   /\ ~Has(saved_manifest'.nodes, c)
                   /\ saved_manifest.nodes[c].file_id
                          \in planned_files(project_parser_files')

\* C31: a call of change_schema_file or delete_schema_file that returns and
\* that changes or deletes a models element whose patched node is versioned,
\* or that has a versions key, leaves every node that references the patched
\* node through child_map (no generic test, file saved and not deleted) out of
\* manifest.nodes and its file in the plan, and the plan lists no file twice.
C31_VersionedModelChange ==
    [][walked_schema_file => versions_rescheduled(all_files)]_vars


\* the sections whose entries other entries can depend on, or have as members
referenced_sections == {"exposures", "metrics", "semantic_models", "saved_queries", "groups"}

\* the dependents of an entry of a section: its children, a group's members
dependents_of(manifest, key, unique_id) ==
    IF key = "groups"
    THEN Range(Get(manifest.group_map, manifest.groups[unique_id].name, <<>>))
    ELSE Range(Get(manifest.child_map, unique_id, <<>>))

\* the saved file is there and no list of deleted files names it
file_stays(manifest, file_id) ==
    /\ Has(manifest.files, file_id)
    /\ ~InList(file_id, file_diff.deleted)
    /\ ~InList(file_id, file_diff.deleted_schema_files)

\* the table and the section of an entry that a schema file defines
defining_table(manifest, unique_id) ==
    CHOOSE x \in {"sources", "exposures", "metrics", "semantic_models", "saved_queries",
                  "unit_tests"} : Has(manifest[x], unique_id)

\* the name of the element that defines the entry
element_name(manifest, unique_id) ==
    IF Has(manifest.sources, unique_id) THEN manifest.sources[unique_id].source_name
    ELSE manifest[defining_table(manifest, unique_id)][unique_id].name

\* the dependent d, as the manifest has it, is one that scheduling evicts: a
\* node that is no generic test in an SQL file that stays, or an entry whose
\* element the YAML of a schema file that stays still has
to_schedule(manifest, d) ==
    IF Has(manifest.nodes, d)
    THEN LET node == manifest.nodes[d] IN
         /\ ~(node.resource_type = "test" /\ node.test_node_type = "generic")
         /\ file_stays(manifest, node.file_id)
         /\ manifest.files[node.file_id].parse_file_type # Schema
    ELSE /\ \E x \in {"sources", "exposures", "metrics", "semantic_models",
                      "saved_queries", "unit_tests"} : Has(manifest[x], d)
         /\ LET table == defining_table(manifest, d)
                owner == manifest[table][d].file_id
            IN  /\ file_stays(manifest, owner)
                /\ element_name(manifest, d)
                       \in names_of(Get(dict_from_yaml(manifest.files[owner]), table, <<>>))

\* the dependent d of the manifest before the step is scheduled after it: a
\* node is evicted with its file in the plan, an entry that a schema file
\* defines is evicted with its element in pp_dict of that file
scheduled_after(d) ==
    IF Has(saved_manifest.nodes, d)
    THEN /\ ~Has(saved_manifest'.nodes, d)
         /\ saved_manifest.nodes[d].file_id \in planned_files(project_parser_files')
    ELSE LET table == defining_table(saved_manifest, d)
             owner == saved_manifest[table][d].file_id
         IN  /\ ~Has(saved_manifest'[table], d)
             /\ Has(saved_manifest'.files, owner)
             /\ element_name(saved_manifest, d)
                    \in names_of(Get(saved_manifest'.files[owner].pp_dict, table, <<>>))

\* the records of the entries popped after their dependents were scheduled
pops(history) == SelectSeq(history, LAMBDA r : r.call = "popped")

semantic_model_deletes ==
    SelectSeq(observed, LAMBDA r : r.call = "delete_schema_semantic_model")

\* the shadows that manifest.disabled lists under unique_id for the file
shadows_of(disabled, unique_id, file_id) ==
    {x \in Range(Get(disabled, unique_id, <<>>)) : x.file_id = file_id}

\* C33: after delete_schema_semantic_model for a semantic model named n, no
\* metric of the schema file's metrics_from_measures[n] is in manifest.metrics
\* and disabled has no shadow of it from this file, metrics_from_measures has
\* no key n, and the metrics generated from the other semantic models are in
\* manifest.metrics, in disabled and in metrics_from_measures as before.
C33_GeneratedMetricsRemoved ==
    \A i \in DOMAIN semantic_model_deletes :
        LET r == semantic_model_deletes[i]
            generated == Range(Get(r.before.metrics_from_measures, r.name, <<>>))
            others == UNION {Range(r.before.metrics_from_measures[m]) :
                                m \in DOMAIN r.before.metrics_from_measures \ {r.name}}
        IN  /\ \A u \in generated :
                   /\ ~Has(r.after.metrics, u)
                   /\ shadows_of(r.after.disabled, u, r.file_id) = {}
            /\ ~Has(r.after.metrics_from_measures, r.name)
            /\ \A m \in DOMAIN r.before.metrics_from_measures \ {r.name} :
                   /\ Has(r.after.metrics_from_measures, m)
                   /\ r.after.metrics_from_measures[m] = r.before.metrics_from_measures[m]
            /\ \A u \in others \ generated :
                   /\ Has(r.before.metrics, u) <=> Has(r.after.metrics, u)
                   /\ Get(r.before.disabled, u, <<>>) = Get(r.after.disabled, u, <<>>)

\* delete_schema_semantic_model has returned for a semantic model with a
\* generated metric in manifest.metrics and one in disabled, in a file that
\* another semantic model with a generated metric shares
C33_GeneratedAndShadowRemoved ==
    \E i \in DOMAIN semantic_model_deletes :
        LET r == semantic_model_deletes[i]
            generated == Range(Get(r.before.metrics_from_measures, r.name, <<>>))
        IN  /\ \E u \in generated : Has(r.before.metrics, u) /\ ~Has(r.after.metrics, u)
            /\ \E u \in generated :
                   /\ shadows_of(r.before.disabled, u, r.file_id) # {}
                   /\ shadows_of(r.after.disabled, u, r.file_id) = {}
            /\ \E m \in DOMAIN r.after.metrics_from_measures :
                   \E u \in Range(r.after.metrics_from_measures[m]) : Has(r.after.metrics, u)


\* the collections of a schema file that list the entries it defines
owning_collections ==
    {"sources", "exposures", "metrics", "groups", "semantic_models", "saved_queries",
     "unit_tests"}

\* every unique_id that a collection of the kinds given lists in a saved
\* schema file is in the table of that name or in disabled
collections_consistent(manifest, kinds) ==
    \A f \in DOMAIN manifest.files :
        manifest.files[f].parse_file_type = Schema =>
            \A t \in kinds : \A u \in Range(manifest.files[f][t]) :
                Has(manifest[t], u) \/ Has(manifest.disabled, u)

\* C34: whenever a handler call of get_parsing_files has returned, every
\* unique_id that a saved schema file lists in sources, exposures, metrics,
\* groups, semantic_models, saved_queries or unit_tests is in the manifest
\* table of that name or in disabled.
C34_OwningCollectionsConsistent ==
    pc \in {"ready", "running", "done"} =>
        collections_consistent(saved_manifest, owning_collections)


\* the step is a call of delete_from_saved or update_in_saved that returned,
\* on a documentation file
doc_file_handled ==
    /\ Len(calls') = Len(calls) + 1
    /\ calls'[Len(calls')][1] \in {"delete_from_saved", "update_in_saved"}
    /\ pc' # "raised"
    /\ saved_manifest.files[calls'[Len(calls')][2]].parse_file_type = Documentation

\* the unique_id d that a doc file lists is scheduled by the step: a macro of
\* a file that stays is evicted with its file in the plan, any other entry as
\* a dependent is
doc_reference_scheduled(d) ==
    IF Has(saved_manifest.macros, d)
    THEN LET file_id == saved_manifest.macros[d].file_id IN
         (Has(saved_manifest.files, file_id) /\ ~InList(file_id, file_diff.deleted))
             => /\ ~Has(saved_manifest'.macros, d)
                /\ file_id \in planned_files(project_parser_files')
    ELSE to_schedule(saved_manifest, d) => scheduled_after(d)

reached_from(start) ==
    macro_reach(Range(macro_child_map[start]), Cardinality(DOMAIN macro_child_map) + 1)

\* C36: a call of recursively_gather_macro_references with an empty list
\* returns, whatever the macro_child_map (cycles between macros included), and
\* the list then holds every unique_id that macro_child_map reaches from the
\* start macro, each one once.
C36_GatherTerminates ==
    <>(/\ pc = "done"
       /\ frames = <<>>
       /\ NoDup(gathered)
       /\ Range(gathered) = reached_from(calls[1][2]))

\* the call has returned for a start macro that lies on a cycle through
\* another macro, with a node gathered too
C36_CycleGathered ==
    /\ pc = "done"
    /\ calls[1][1] = "recursively_gather_macro_references"
    /\ InList(calls[1][2], gathered)
    /\ \E m \in Range(gathered) :
           /\ m # calls[1][2]
           /\ m[1] = "macro"
           /\ InList(calls[1][2], macro_child_map[m])
    /\ \E n \in Range(gathered) : n[1] # "macro"

\* C37: every cascade of get_parsing_files stops of itself, also over a
\* child_map in which a metric is reached again during its own cascade: no
\* handler call ends in the RecursionError of calls that repeat without end.
C37_CascadesStop == exc # "RecursionError"

\* the manifest tables that hold one entry for a unique_id
primary_tables == manifest_tables \ {"disabled"}

\* the entries of the primary tables and the shadows of disabled whose file
\* is not in the saved file map, each as <<table, unique_id>>
dangling(manifest) ==
    UNION {{<<x, u>> : u \in {v \in DOMAIN manifest[x] :
                                 ~Has(manifest.files, manifest[x][v].file_id)}} :
              x \in primary_tables}
    \cup {<<"disabled", u>> : u \in {v \in DOMAIN manifest.disabled :
                 \E i \in DOMAIN manifest.disabled[v] :
                     ~Has(manifest.files, manifest.disabled[v][i].file_id)}}

\* C38: when get_parsing_files has returned, every entry of a primary
\* manifest table and every shadow of disabled has a file_id that the saved
\* file map holds, disabled sources included.
C38_ReferentialIntegrity == pc = "done" => dangling(saved_manifest) = {}

\* the entries of manifest.nodes, manifest.macros and manifest.docs that a
\* planned file which is no schema file owned when the planner was built,
\* each as <<table, unique_id>>
stale_entries(manifest, ppf) ==
    UNION {{xu \in {"nodes", "macros", "docs"} \X Range(manifest_built.files[f].nodes
                                                       \o manifest_built.files[f].macros
                                                       \o manifest_built.files[f].docs) :
               /\ InList(xu[2], manifest_built.files[f][xu[1]])
               /\ Has(manifest[xu[1]], xu[2])} :
              f \in {g \in planned_files(ppf) \cap DOMAIN manifest_built.files :
                        ~IsSchemaSourceFile(manifest_built.files[g])}}

\* C39: when get_parsing_files has returned, no unique_id that a planned file
\* which is no schema file owned when the planner was built (its nodes, its
\* macros, its docs) is left in manifest.nodes, manifest.macros or
\* manifest.docs, also for a snapshot file with several nodes.
C39_NoStaleEntries ==
    pc = "done" => stale_entries(saved_manifest, project_parser_files) = {}

\* C40: deleted_special_override_macro is false before the first handler call
\* of get_parsing_files, never goes from true back to false, and is true when
\* get_parsing_files has returned only if a deleted file owned a macro of
\* another package than dbt named as a special override macro.
C40_FlagOnlyForDeletedOverride ==
    /\ [](/\ pc \in {"new", "ready"} => ~deleted_special_override_macro
          /\ (pc = "done" /\ deleted_special_override_macro) =>
                 deleted_special_macro_files # {})
    /\ [][deleted_special_override_macro => deleted_special_override_macro']_vars
=============================================================================
